---- MODULE Spec2Model ----
(***************************************************************************)
(* Confluence2Notion: the background worker's Markdown -> Notion blocks    *)
(* converter and its page assembler (service worker), modelled from the    *)
(* JavaScript source.                                                      *)
(*                                                                         *)
(* Representation.  A JavaScript string is a sequence of one-character     *)
(* strings, so that the code's regular expressions can be evaluated        *)
(* character by character.  A Markdown document is represented by the      *)
(* array markdown.split('\n') of its physical lines (split/join is a       *)
(* bijection between strings and non-empty arrays of newline-free          *)
(* strings); the empty document is << <<>> >>.  Positions are 1-based;     *)
(* the `end` of a regex match is the index after its last character.       *)
(***************************************************************************)
EXTENDS Integers, Sequences, FiniteSets, TLC

\* ------------------------------------------------------------------------
\* Characters and string primitives (String.prototype.trim, startsWith, ...)
\* ------------------------------------------------------------------------
\* the backtick character (the parser accepts no backtick inside a string)
Backtick == "<backtick>"

\* \s of the regular expressions and trim(); a line never holds "\n", a
\* joined text (code content, quote content) may
IsWs(c) == c \in {" ", "\t", "\n"}

IsDigit(c) == c \in {"0", "1", "2", "3", "4", "5", "6", "7", "8", "9"}

IsHex(c) == IsDigit(c) \/ c \in {"a", "b", "c", "d", "e", "f", "A", "B", "C", "D", "E", "F"}

Min(S) == CHOOSE x \in S : \A y \in S : x <= y

Max(S) == CHOOSE x \in S : \A y \in S : x >= y

\* n copies of the character c
Rep(c, n) == [k \in 1..n |-> c]

\* index of the first non-whitespace character at or after i (Len+1 if none)
RECURSIVE SkipWs(_, _)
SkipWs(s, i) == IF i <= Len(s) /\ IsWs(s[i]) THEN SkipWs(s, i + 1) ELSE i

\* index of the last non-whitespace character at or before i (0 if none)
RECURSIVE SkipWsBack(_, _)
SkipWsBack(s, i) == IF i >= 1 /\ IsWs(s[i]) THEN SkipWsBack(s, i - 1) ELSE i

TrimStart(s) == SubSeq(s, SkipWs(s, 1), Len(s))

Trim(s) == SubSeq(s, SkipWs(s, 1), SkipWsBack(s, Len(s)))

StartsWith(s, p) == Len(s) >= Len(p) /\ SubSeq(s, 1, Len(p)) = p

EndsWith(s, p) == Len(s) >= Len(p) /\ SubSeq(s, Len(s) - Len(p) + 1, Len(s)) = p

Includes(s, c) == \E k \in 1..Len(s) : s[k] = c

IncludesSeq(s, p) == \E k \in 1..(Len(s) - Len(p) + 1) : SubSeq(s, k, k + Len(p) - 1) = p

\* smallest index >= from holding the character c, 0 if there is none
NextPos(s, c, from) ==
  LET P == {k \in from..Len(s) : s[k] = c}
  IN IF P = {} THEN 0 ELSE Min(P)

\* Array.prototype.join over an array of strings
RECURSIVE Join(_, _)
Join(ss, sep) ==
  IF ss = <<>> THEN <<>>
  ELSE IF Len(ss) = 1 THEN ss[1]
  ELSE ss[1] \o sep \o Join(Tail(ss), sep)

\* concatenation of an array of arrays
RECURSIVE Flatten(_)
Flatten(ss) == IF ss = <<>> THEN <<>> ELSE Head(ss) \o Flatten(Tail(ss))

\* the characters of a sequence as one TLA+ string (used for table lookups)
RECURSIVE Str(_)
Str(s) == IF s = <<>> THEN "" ELSE Head(s) \o Str(Tail(s))

\* ------------------------------------------------------------------------
\* validateAndCleanUrl
\* ------------------------------------------------------------------------
NoLink == <<>>

HttpPrefix == <<"h", "t", "t", "p", ":", "/", "/">>

HttpsPrefix == <<"h", "t", "t", "p", "s", ":", "/", "/">>

\* new URL(u).href for u = scheme://rest, or <<>> when the constructor throws:
\* the authority must be non-empty and free of whitespace; a URL without a
\* path gets the path "/".
UrlHref(scheme, rest) ==
  LET stops == {k \in 1..Len(rest) : rest[k] \in {"/", "?", "#"}}
      authEnd == IF stops = {} THEN Len(rest) ELSE Min(stops) - 1
      auth == SubSeq(rest, 1, authEnd)
      tail == SubSeq(rest, authEnd + 1, Len(rest))
  IN IF auth = <<>> \/ \E k \in 1..Len(auth) : IsWs(auth[k]) THEN <<>>
     ELSE IF tail = <<>> \/ tail[1] # "/" THEN scheme \o auth \o <<"/">> \o tail
     ELSE scheme \o auth \o tail

\* returns the cleaned URL, or <<>> for null
validateAndCleanUrl(url) ==
  LET trimmed == Trim(url)
  IN IF trimmed = <<>> THEN <<>>
     ELSE IF StartsWith(trimmed, HttpPrefix) /\ Len(trimmed) > Len(HttpPrefix)
       THEN UrlHref(HttpPrefix, SubSeq(trimmed, Len(HttpPrefix) + 1, Len(trimmed)))
     ELSE IF StartsWith(trimmed, HttpsPrefix) /\ Len(trimmed) > Len(HttpsPrefix)
       THEN UrlHref(HttpsPrefix, SubSeq(trimmed, Len(HttpsPrefix) + 1, Len(trimmed)))
     ELSE IF StartsWith(trimmed, <<"/", "/">>)
       THEN UrlHref(HttpsPrefix, SubSeq(trimmed, 3, Len(trimmed)))
     ELSE <<>>

\* ------------------------------------------------------------------------
\* Rich text runs
\* ------------------------------------------------------------------------
\* createRichTextSegment: the link is kept only if it validates
createRichTextSegment(content, annotations, link) ==
  [content |-> content,
   annotations |-> annotations,
   link |-> IF link = NoLink THEN NoLink ELSE validateAndCleanUrl(link)]

\* a literal { type: 'text', text: { content } } object
PlainRun(content) == [content |-> content, annotations |-> {}, link |-> NoLink]

\* ------------------------------------------------------------------------
\* parseInlineMarkdown: the seven patterns, each scanned with the g flag
\* (leftmost match at or after lastIndex, then lastIndex := end of match)
\* ------------------------------------------------------------------------
Match(start, end, type, cs, ce, ls, le) ==
  [start |-> start, end |-> end, type |-> type, cs |-> cs, ce |-> ce, ls |-> ls, le |-> le]

\* the code pattern: a backtick, one or more non-backticks, a backtick
RECURSIVE CodeMatches(_, _)
CodeMatches(text, from) ==
  LET s == NextPos(text, Backtick, from)
      e == IF s = 0 THEN 0 ELSE NextPos(text, Backtick, s + 1)
  IN IF s = 0 \/ e = 0 THEN <<>>
     ELSE IF e = s + 1 THEN CodeMatches(text, s + 1)
     ELSE <<Match(s, e + 1, "code", s + 1, e - 1, 0, 0)>> \o CodeMatches(text, e + 1)

\* /\*\*([^*]+)\*\*/g, /__(?!_)([^_]+)__/g, /~~([^~]+)~~/g  (delimiter d doubled)
RECURSIVE DoubleMatches(_, _, _, _)
DoubleMatches(text, d, type, from) ==
  LET P == {k \in from..(Len(text) - 1) : text[k] = d /\ text[k + 1] = d}
      s == IF P = {} THEN 0 ELSE Min(P)
      e == IF s = 0 THEN 0 ELSE NextPos(text, d, s + 2)
      ok == /\ s # 0
            /\ s + 2 <= Len(text)
            /\ text[s + 2] # d
            /\ e # 0
            /\ e + 1 <= Len(text)
            /\ text[e + 1] = d
  IN IF s = 0 THEN <<>>
     ELSE IF ok THEN <<Match(s, e + 2, type, s + 2, e - 1, 0, 0)>> \o DoubleMatches(text, d, type, e + 2)
     ELSE DoubleMatches(text, d, type, s + 1)

\* /(?<!\*)\*(?!\*)([^*]+?)\*(?!\*)/g and the same with _
RECURSIVE SingleMatches(_, _, _)
SingleMatches(text, d, from) ==
  LET Closes(k) ==
        LET e == NextPos(text, d, k + 1)
        IN e # 0 /\ (e = Len(text) \/ text[e + 1] # d)
      P == {k \in from..(Len(text) - 1) :
              /\ text[k] = d
              /\ (k = 1 \/ text[k - 1] # d)
              /\ text[k + 1] # d
              /\ Closes(k)}
      s == IF P = {} THEN 0 ELSE Min(P)
      e == IF s = 0 THEN 0 ELSE NextPos(text, d, s + 1)
  IN IF s = 0 THEN <<>>
     ELSE <<Match(s, e + 1, "italic", s + 1, e - 1, 0, 0)>> \o SingleMatches(text, d, e + 1)

\* /\[([^\]]+)\]\(([^)]+)\)/g
RECURSIVE LinkMatches(_, _)
LinkMatches(text, from) ==
  LET Close1(k) == NextPos(text, "]", k + 1)
      Close2(k) == IF Close1(k) = 0 THEN 0 ELSE NextPos(text, ")", Close1(k) + 2)
      P == {k \in from..Len(text) :
              /\ text[k] = "["
              /\ Close1(k) > k + 1
              /\ Close1(k) + 1 <= Len(text)
              /\ text[Close1(k) + 1] = "("
              /\ Close2(k) > Close1(k) + 2}
      s == IF P = {} THEN 0 ELSE Min(P)
  IN IF s = 0 THEN <<>>
     ELSE <<Match(s, Close2(s) + 1, "link", s + 1, Close1(s) - 1, Close1(s) + 2, Close2(s) - 1)>>
          \o LinkMatches(text, Close2(s) + 1)

\* matches.sort((a, b) => a.start - b.start): a stable insertion by start
InsertByStart(rest, m) ==
  LET before == {k \in 1..Len(rest) : rest[k].start <= m.start}
      cut == IF before = {} THEN 0 ELSE Max(before)
  IN SubSeq(rest, 1, cut) \o <<m>> \o SubSeq(rest, cut + 1, Len(rest))

RECURSIVE SortByStart(_)
SortByStart(ms) ==
  IF ms = <<>> THEN <<>>
  ELSE InsertByStart(SortByStart(SubSeq(ms, 1, Len(ms) - 1)), ms[Len(ms)])

\* the overlap filter: a match is kept unless it intersects one already kept
RECURSIVE RemoveOverlaps(_, _)
RemoveOverlaps(ms, kept) ==
  IF ms = <<>> THEN kept
  ELSE LET current == Head(ms)
           overlaps == \E j \in 1..Len(kept) :
                         ~(current.end <= kept[j].start \/ current.start >= kept[j].end)
       IN RemoveOverlaps(Tail(ms), IF overlaps THEN kept ELSE Append(kept, current))

AllMatches(text) ==
  CodeMatches(text, 1)
  \o DoubleMatches(text, "*", "bold", 1)
  \o DoubleMatches(text, "_", "bold", 1)
  \o DoubleMatches(text, "~", "strikethrough", 1)
  \o SingleMatches(text, "*", 1)
  \o SingleMatches(text, "_", 1)
  \o LinkMatches(text, 1)

\* the test for nested formatting: content holds one of ** __ * _ ~~ [ or a backtick
hasNestedFormatting(content) ==
  \/ \E k \in 1..Len(content) : content[k] \in {"*", "_", Backtick, "["}
  \/ IncludesSeq(content, <<"~", "~">>)

MAX_TEXT_LENGTH == 2000

\* the final pass: a run longer than MAX_TEXT_LENGTH is cut into chunks
SplitChunks(segment) ==
  LET content == segment.content
      n == (Len(content) + MAX_TEXT_LENGTH - 1) \div MAX_TEXT_LENGTH
  IN [k \in 1..n |->
        createRichTextSegment(
          SubSeq(content, (k - 1) * MAX_TEXT_LENGTH + 1,
                 IF k * MAX_TEXT_LENGTH < Len(content) THEN k * MAX_TEXT_LENGTH ELSE Len(content)),
          segment.annotations, segment.link)]

\* SplitLongRun without the cut
SplitLongRunNoCut(segment) == <<segment>>

SplitLongRun(segment) ==
  IF Len(segment.content) <= MAX_TEXT_LENGTH THEN <<segment>> ELSE SplitChunks(segment)

\* the nested runs of a formatted match, each with the annotations of the
\* match added to its own
MergeAnnotations(nested, annotations) ==
  [k \in 1..Len(nested) |->
     [content |-> nested[k].content,
      annotations |-> annotations \cup nested[k].annotations,
      link |-> IF nested[k].link = NoLink THEN NoLink
               ELSE validateAndCleanUrl(nested[k].link)]]

\* the final pass over richText, and the fallback to one empty run
SplitLongRuns(richText) ==
  LET result == Flatten([k \in 1..Len(richText) |-> SplitLongRun(richText[k])])
  IN IF Len(result) > 0 THEN result ELSE <<PlainRun(<<>>)>>

RECURSIVE parseInlineMarkdown(_)
\* the runs one accepted match contributes
RECURSIVE MatchRuns(_, _)
MatchRuns(text, m) ==
  LET content == SubSeq(text, m.cs, m.ce)
      annotations == IF m.type = "link" THEN {} ELSE {m.type}
      link == IF m.type = "link" THEN validateAndCleanUrl(SubSeq(text, m.ls, m.le)) ELSE NoLink
  IN IF m.type \in {"code", "link"} THEN <<createRichTextSegment(content, annotations, link)>>
     ELSE IF hasNestedFormatting(content)
       THEN MergeAnnotations(parseInlineMarkdown(content), annotations)
     ELSE <<createRichTextSegment(content, annotations, link)>>

\* the forEach over nonOverlapping, with the plain text before each match
RECURSIVE BuildRichText(_, _, _)
BuildRichText(text, ms, lastIndex) ==
  IF ms = <<>>
    THEN IF lastIndex <= Len(text)
           THEN <<createRichTextSegment(SubSeq(text, lastIndex, Len(text)), {}, NoLink)>>
           ELSE <<>>
  ELSE LET m == Head(ms)
           plain == IF m.start > lastIndex
                      THEN <<createRichTextSegment(SubSeq(text, lastIndex, m.start - 1), {}, NoLink)>>
                      ELSE <<>>
       IN plain \o MatchRuns(text, m) \o BuildRichText(text, Tail(ms), m.end)

parseInlineMarkdown(text) ==
  IF Trim(text) = <<>> THEN <<PlainRun(<<>>)>>
  ELSE SplitLongRuns(BuildRichText(text, RemoveOverlaps(SortByStart(AllMatches(text)), <<>>), 1))

\* ------------------------------------------------------------------------
\* normalizeLanguage
\* ------------------------------------------------------------------------
validNotionLanguages ==
  {"abap", "abc", "agda", "arduino", "ascii art", "assembly", "bash", "basic", "bnf",
   "c", "c#", "c++", "clojure", "coffeescript", "coq", "css", "dart", "dhall", "diff",
   "docker", "ebnf", "elixir", "elm", "erlang", "f#", "flow", "fortran", "gherkin",
   "glsl", "go", "graphql", "groovy", "haskell", "hcl", "html", "idris", "java",
   "javascript", "json", "julia", "kotlin", "latex", "less", "lisp", "livescript",
   "llvm ir", "lua", "makefile", "markdown", "markup", "matlab", "mathematica", "mermaid",
   "nix", "notion formula", "objective-c", "ocaml", "pascal", "perl", "php", "plain text",
   "powershell", "prolog", "protobuf", "purescript", "python", "r", "racket", "reason",
   "ruby", "rust", "sass", "scala", "scheme", "scss", "shell", "smalltalk", "solidity",
   "sql", "swift", "toml", "typescript", "vb.net", "verilog", "vhdl", "visual basic",
   "webassembly", "xml", "yaml", "java/c/c++/c#"}

\* the entries of the langMap object literal, in source order (a key written
\* twice keeps its last value)
langMapEntries ==
  << <<"js", "javascript">>, <<"ts", "typescript">>, <<"py", "python">>, <<"rb", "ruby">>,
     <<"sh", "bash">>, <<"shell", "shell">>, <<"zsh", "shell">>, <<"yml", "yaml">>,
     <<"md", "markdown">>, <<"cpp", "c++">>, <<"csharp", "c#">>, <<"cs", "c#">>,
     <<"fsharp", "f#">>, <<"fs", "f#">>, <<"rs", "rust">>, <<"objc", "objective-c">>,
     <<"obj-c", "objective-c">>, <<"vb", "visual basic">>, <<"tex", "latex">>,
     <<"dockerfile", "docker">>, <<"make", "makefile">>, <<"asm", "assembly">>,
     <<"wasm", "webassembly">>, <<"gql", "graphql">>, <<"hbs", "markup">>,
     <<"handlebars", "markup">>, <<"pug", "markup">>, <<"jade", "markup">>,
     <<"text", "plain text">>, <<"txt", "plain text">>, <<"plaintext", "plain text">>,
     <<"none", "plain text">>, <<"", "plain text">>, <<"f#", "fsharp">>, <<"vb", "vb">>,
     <<"vbnet", "vb">>, <<"csharp", "csharp">>, <<"c#", "csharp">>,
     <<"powershell", "powershell">>, <<"ps1", "powershell">>,
     <<"dockerfile", "dockerfile">>, <<"makefile", "makefile">>, <<"cmake", "makefile">>,
     <<"diff", "diff">>, <<"patch", "diff">> >>

\* langMap[key], "" when the key is absent
langMap(key) ==
  LET hits == {k \in 1..Len(langMapEntries) : langMapEntries[k][1] = key}
  IN IF hits = {} THEN "" ELSE langMapEntries[Max(hits)][2]

UpperCase == <<"A", "B", "C", "D", "E", "F", "G", "H", "I", "J", "K", "L", "M", "N", "O", "P", "Q", "R", "S", "T", "U", "V", "W", "X", "Y", "Z">>

LowerCase == <<"a", "b", "c", "d", "e", "f", "g", "h", "i", "j", "k", "l", "m", "n", "o", "p", "q", "r", "s", "t", "u", "v", "w", "x", "y", "z">>

toLowerCase(s) ==
  [k \in 1..Len(s) |->
     IF \E u \in 1..Len(UpperCase) : UpperCase[u] = s[k]
       THEN LowerCase[CHOOSE u \in 1..Len(UpperCase) : UpperCase[u] = s[k]]
       ELSE s[k]]

normalizeLanguage(lang) ==
  IF Trim(lang) = <<>> THEN "plain text"
  ELSE LET normalized == Str(Trim(toLowerCase(lang)))
       IN IF langMap(normalized) # "" THEN langMap(normalized)
          ELSE IF normalized \in validNotionLanguages THEN normalized
          ELSE "plain text"

\* ------------------------------------------------------------------------
\* Block creators
\* ------------------------------------------------------------------------
createParagraphBlock(text) ==
  [type |-> "paragraph", rich_text |-> parseInlineMarkdown(text)]

\* createHeadingBlock without the Math.min clamp (levels 4-6 kept)
createHeadingBlockNoClamp(level, text) ==
  [type |-> CASE level <= 1 -> "heading_1" [] level = 2 -> "heading_2" [] level = 3 -> "heading_3"
              [] OTHER -> "heading_6",
   rich_text |-> parseInlineMarkdown(text)]

createHeadingBlock(level, text) ==
  LET n == IF level < 1 THEN 1 ELSE IF level > 3 THEN 3 ELSE level
  IN [type |-> CASE n = 1 -> "heading_1" [] n = 2 -> "heading_2" [] OTHER -> "heading_3",
      rich_text |-> parseInlineMarkdown(text)]

createBulletedListItem(text) ==
  [type |-> "bulleted_list_item", rich_text |-> parseInlineMarkdown(text)]

createNumberedListItem(text) ==
  [type |-> "numbered_list_item", rich_text |-> parseInlineMarkdown(text)]

createTodoBlock(text, checked) ==
  [type |-> "to_do", rich_text |-> parseInlineMarkdown(text), checked |-> checked]

createQuoteBlock(text) ==
  [type |-> "quote", rich_text |-> parseInlineMarkdown(text)]

MAX_CODE_LENGTH == 2000

TruncationNotice == <<"\n", "\n", ".", ".", ".", " ", "(", "t", "r", "u", "n", "c", "a", "t", "e", "d", ",", " ", "o", "r", "i", "g", "i", "n", "a", "l", " ", "c", "o", "d", "e", " ", "t", "o", "o", " ", "l", "o", "n", "g", ")", " ", ".", ".", ".">>

createCodeBlock(code, language) ==
  [type |-> "code",
   rich_text |-> IF Len(code) <= MAX_CODE_LENGTH
                   THEN <<PlainRun(code)>>
                   ELSE <<PlainRun(SubSeq(code, 1, MAX_CODE_LENGTH - 100) \o TruncationNotice)>>,
   language |-> normalizeLanguage(language)]

createImageBlock(url, caption) ==
  LET validUrl == validateAndCleanUrl(url)
      imageText == IF caption # <<>> THEN <<"I", "m", "a", "g", "e", ":", " ">> \o caption ELSE <<"I", "m", "a", "g", "e">>
      imageUrl == IF url # <<>> THEN url ELSE <<"N", "/", "A">>
      isValidHttpUrl == StartsWith(imageUrl, HttpPrefix) \/ StartsWith(imageUrl, HttpsPrefix)
  IN IF validUrl = <<>>
       THEN [type |-> "callout",
             rich_text |-> << PlainRun(imageText),
                              IF isValidHttpUrl
                                THEN [content |-> <<" ", "-", " ", "V", "i", "e", "w", " ", "o", "r", "i", "g", "i", "n", "a", "l", " ", "i", "m", "a", "g", "e">>,
                                      annotations |-> {}, link |-> imageUrl]
                                ELSE PlainRun(<<" ", "-", " ", "U", "R", "L", ":", " ">> \o imageUrl) >>,
             icon |-> "framed picture",
             color |-> "yellow_background"]
       ELSE [type |-> "image",
             url |-> validUrl,
             caption |-> IF caption # <<>> THEN parseInlineMarkdown(caption) ELSE <<>>]

createDividerBlock == [type |-> "divider"]

calloutColors(type) ==
  CASE type = "info" -> "blue_background"
    [] type = "warning" -> "yellow_background"
    [] type = "note" -> "gray_background"
    [] type = "tip" -> "green_background"
    [] type = "success" -> "green_background"
    [] type = "error" -> "red_background"
    [] type = "notification" -> "purple_background"
    [] type = "comment" -> "gray_background"
    [] OTHER -> "gray_background"

createCalloutBlock(content, emoji, type) ==
  [type |-> "callout",
   rich_text |-> parseInlineMarkdown(content),
   icon |-> emoji,
   color |-> calloutColors(type)]

\* ------------------------------------------------------------------------
\* Table parser
\* ------------------------------------------------------------------------
\* String.prototype.split on one separator character
RECURSIVE SplitFrom(_, _, _)
SplitFrom(s, c, from) ==
  LET e == NextPos(s, c, from)
  IN IF e = 0 THEN <<SubSeq(s, from, Len(s))>>
     ELSE <<SubSeq(s, from, e - 1)>> \o SplitFrom(s, c, e + 1)

Split(s, c) == SplitFrom(s, c, 1)

\* [\s\-:]
IsSepChar(c) == IsWs(c) \/ c \in {"-", ":"}

\* the two separator-row patterns of parseTable, tested on the trimmed line:
\* pipe-framed groups of [\s\-:]+, or unframed groups joined by pipes
isSeparator(trimmed) ==
  LET n == Len(trimmed)
      onlySep == \A k \in 1..n : IsSepChar(trimmed[k]) \/ trimmed[k] = "|"
      noEmptyGroup == \A k \in 1..(n - 1) : ~(trimmed[k] = "|" /\ trimmed[k + 1] = "|")
  IN \/ /\ n >= 3
        /\ onlySep
        /\ noEmptyGroup
        /\ trimmed[1] = "|"
        /\ trimmed[n] = "|"
     \/ /\ n >= 3
        /\ onlySep
        /\ noEmptyGroup
        /\ trimmed[1] # "|"
        /\ trimmed[n] # "|"
        /\ Includes(trimmed, "|")

\* the while loop that pops trailing empty cells
RECURSIVE PopTrailingEmpty(_)
PopTrailingEmpty(cells) ==
  IF Len(cells) > 1 /\ cells[Len(cells)] = <<>> /\ cells[Len(cells) - 1] = <<>>
    THEN PopTrailingEmpty(SubSeq(cells, 1, Len(cells) - 1))
    ELSE cells

parseTableRow(row) ==
  IF Trim(row) = <<>> THEN <<>>
  ELSE LET t == Trim(row)
           c1 == IF StartsWith(t, <<"|">>) THEN SubSeq(t, 2, Len(t)) ELSE t
           cleaned == IF EndsWith(c1, <<"|">>) THEN SubSeq(c1, 1, Len(c1) - 1) ELSE c1
           parts == Split(cleaned, "|")
           cells == PopTrailingEmpty([k \in 1..Len(parts) |-> Trim(parts[k])])
       IN IF Len(cells) > 0 THEN cells ELSE << <<>> >>

\* the collecting loop of parseTable; ok = FALSE stands for the early return null
RECURSIVE CollectTableLines(_, _, _, _)
CollectTableLines(lines, i, tableLines, foundSeparator) ==
  IF i > Len(lines)
    THEN [ok |-> TRUE, tableLines |-> tableLines, foundSeparator |-> foundSeparator, nextIndex |-> i]
  ELSE LET trimmed == Trim(lines[i])
       IN IF isSeparator(trimmed) THEN CollectTableLines(lines, i + 1, tableLines, TRUE)
          ELSE IF Includes(trimmed, "|")
            THEN CollectTableLines(lines, i + 1, Append(tableLines, trimmed), foundSeparator)
          ELSE IF Len(tableLines) > 0
            THEN [ok |-> TRUE, tableLines |-> tableLines, foundSeparator |-> foundSeparator,
                  nextIndex |-> i]
          ELSE [ok |-> FALSE, tableLines |-> tableLines, foundSeparator |-> foundSeparator,
                nextIndex |-> i]

\* parseTable; ok = FALSE stands for null
parseTable(lines, startIndex) ==
  LET c == CollectTableLines(lines, startIndex, <<>>, FALSE)
      headers == parseTableRow(c.tableLines[1])
      rows == [k \in 1..(Len(c.tableLines) - 1) |-> parseTableRow(c.tableLines[k + 1])]
      none == [ok |-> FALSE, headers |-> <<>>, rows |-> <<>>, nextIndex |-> startIndex]
  IN IF ~c.ok \/ Len(c.tableLines) = 0 THEN none
     ELSE IF Len(headers) = 0 THEN none
     ELSE IF Len(rows) = 0 /\ ~c.foundSeparator /\ Len(c.tableLines) = 1 THEN none
     ELSE [ok |-> TRUE, headers |-> headers, rows |-> rows, nextIndex |-> c.nextIndex]

\* normalizedRow without the truncation of long rows
normalizedRowNoTruncate(row, tableWidth) ==
  [k \in 1..(IF Len(row) > tableWidth THEN Len(row) ELSE tableWidth) |->
     IF k <= Len(row) THEN row[k] ELSE <<>>]

\* the row normalisation of createTableBlock: pad with '' or truncate
normalizedRow(row, tableWidth) ==
  [k \in 1..tableWidth |-> IF k <= Len(row) THEN row[k] ELSE <<>>]

tableRow(cells) ==
  [type |-> "table_row", cells |-> [k \in 1..Len(cells) |-> parseInlineMarkdown(cells[k])]]

createTableBlock(headers, rows) ==
  LET tableWidth == Len(headers)
      normalizedRows == [r \in 1..Len(rows) |-> normalizedRow(rows[r], tableWidth)]
  IN [type |-> "table",
      table_width |-> tableWidth,
      has_column_header |-> TRUE,
      has_row_header |-> FALSE,
      children |-> <<tableRow(headers)>> \o [r \in 1..Len(rows) |-> tableRow(normalizedRows[r])]]

\* ------------------------------------------------------------------------
\* Blockquote and callout parser
\* ------------------------------------------------------------------------
\* the code points of the model's alphabet that lie in the ranges of the
\* callout pattern, U+1F300-1F9FF, U+2600-26FF, U+2700-27BF  (U+2139, the
\* information sign, and U+FE0F, the variation selector, lie outside)
InEmojiRange(c) ==
  c \in {"U+26A0", "U+2705", "U+274C", "U+1F4DD", "U+1F4A1", "U+1F514", "U+1F4AC"}

\* calloutTypes[emoji] || 'info'
calloutTypes(emoji) ==
  CASE emoji = <<"U+2139", "U+FE0F">> -> "info"
    [] emoji = <<"U+26A0", "U+FE0F">> -> "warning"
    [] emoji = <<"U+1F4DD">> -> "note"
    [] emoji = <<"U+1F4A1">> -> "tip"
    [] emoji = <<"U+2705">> -> "success"
    [] emoji = <<"U+274C">> -> "error"
    [] emoji = <<"U+1F514">> -> "notification"
    [] emoji = <<"U+1F4AC">> -> "comment"
    [] OTHER -> "info"

\* index after the last of the contiguous lines starting with '> '
RECURSIVE QuoteEnd(_, _)
QuoteEnd(lines, i) ==
  IF i <= Len(lines) /\ StartsWith(lines[i], <<">", " ">>) THEN QuoteEnd(lines, i + 1) ELSE i

parseBlockquote(lines, startIndex) ==
  LET nextIndex == QuoteEnd(lines, startIndex)
      quoteLines == [k \in 1..(nextIndex - startIndex) |->
                       SubSeq(lines[startIndex + k - 1], 3, Len(lines[startIndex + k - 1]))]
      content == Trim(Join(quoteLines, <<"\n">>))
      \* ^(emoji)\s*(.+)$ without the s and m flags: the text after the emoji
      \* and the white space must be non-empty and hold no line break
      textStart == SkipWs(content, 2)
      text == SubSeq(content, textStart, Len(content))
      calloutMatch == /\ Len(content) >= 1
                      /\ InEmojiRange(content[1])
                      /\ text # <<>>
                      /\ ~Includes(text, "\n")
  IN IF calloutMatch
       THEN [isCallout |-> TRUE, content |-> text, emoji |-> content[1],
             type |-> calloutTypes(<<content[1]>>), nextIndex |-> nextIndex]
       ELSE [isCallout |-> FALSE, content |-> content, emoji |-> "", type |-> "",
             nextIndex |-> nextIndex]

\* ------------------------------------------------------------------------
\* Numbering-artifact cleanup (the replace cascade)
\* ------------------------------------------------------------------------
RECURSIVE DigitsEnd(_, _)
DigitsEnd(s, i) == IF i <= Len(s) /\ IsDigit(s[i]) THEN DigitsEnd(s, i + 1) ELSE i

RECURSIVE SameEnd(_, _, _)
SameEnd(s, i, c) == IF i <= Len(s) /\ s[i] = c THEN SameEnd(s, i + 1, c) ELSE i

\* Matches a prefix pattern given as a list of atoms, from position pos:
\* the index after the match, or 0.  Atoms: "DUP" is (\d)\1+, "D+" is \d+,
\* "SEP" is the class of the ideographic comma U+3001 and the dot, "S*" and
\* "S+" are \s* and \s+, any other atom is that literal character.  Every
\* repetition is followed by an atom it cannot match, so greedy is exact.
RECURSIVE MatchAtoms(_, _, _)
MatchAtoms(s, pos, atoms) ==
  IF atoms = <<>> THEN pos
  ELSE LET a == Head(atoms)
           e == CASE a = "DUP" ->
                       IF pos <= Len(s) /\ IsDigit(s[pos]) /\ SameEnd(s, pos, s[pos]) >= pos + 2
                         THEN SameEnd(s, pos, s[pos]) ELSE 0
                  [] a = "D+" -> IF DigitsEnd(s, pos) > pos THEN DigitsEnd(s, pos) ELSE 0
                  [] a = "SEP" -> IF pos <= Len(s) /\ s[pos] \in {"U+3001", "."} THEN pos + 1 ELSE 0
                  [] a = "S*" -> SkipWs(s, pos)
                  [] a = "S+" -> IF SkipWs(s, pos) > pos THEN SkipWs(s, pos) ELSE 0
                  [] OTHER -> IF pos <= Len(s) /\ s[pos] = a THEN pos + 1 ELSE 0
       IN IF e = 0 THEN 0 ELSE MatchAtoms(s, e, Tail(atoms))

\* the thirteen replace calls, in order: <<pattern, replacement>>
NumberingPatterns ==
  << <<<<"DUP", ".", "D+", "SEP", "S*">>, <<>>>>,
     <<<<"DUP", ".", "D+", ".", "D+", "SEP", "S*">>, <<>>>>,
     <<<<"DUP", ".", "D+", ".", "D+", ".", "D+", "SEP", "S*">>, <<>>>>,
     <<<<"DUP", "SEP", "S*">>, <<>>>>,
     <<<<"D+", "[", "D+", "SEP">>, <<"[">>>>,
     <<<<"D+", "[", "D+", ".", "D+", "SEP">>, <<"[">>>>,
     <<<<"D+", "[", "D+", ".", "D+", ".", "D+", "SEP">>, <<"[">>>>,
     <<<<"DUP", "[", "DUP", "SEP">>, <<"[">>>>,
     <<<<"D+", ".", "D+", ".", "D+", ".", "D+", "SEP", "S*">>, <<>>>>,
     <<<<"D+", ".", "D+", ".", "D+", "SEP", "S*">>, <<>>>>,
     <<<<"D+", ".", "D+", "SEP", "S*">>, <<>>>>,
     <<<<"D+", "SEP", "S*">>, <<>>>>,
     <<<<"D+", ".", "D+", "S+", "D+", ".", "D+", "SEP", "S*">>, <<>>>> >>

RECURSIVE ReplaceCascade(_, _)
ReplaceCascade(content, k) ==
  IF k > Len(NumberingPatterns) THEN content
  ELSE LET e == MatchAtoms(content, 1, NumberingPatterns[k][1])
       IN ReplaceCascade(IF e = 0 THEN content
                         ELSE NumberingPatterns[k][2] \o SubSeq(content, e, Len(content)),
                         k + 1)

\* cleanListContent of buildNestedList
cleanListContent(content) == ReplaceCascade(content, 1)

\* ------------------------------------------------------------------------
\* List parser (with nesting support)
\* ------------------------------------------------------------------------
\* \s+(.+)$ from position p: white space, then at least one more character.
\* When only white space follows, \s+ gives its last character back to (.+).
RestOk(s, p) == SkipWs(s, p) > p /\ (SkipWs(s, p) <= Len(s) \/ SkipWs(s, p) - p >= 2)

RestStart(s, p) == IF SkipWs(s, p) <= Len(s) THEN SkipWs(s, p) ELSE Len(s)

NoItem == [ok |-> FALSE, indent |-> 0, content |-> <<>>, checked |-> FALSE]

\* /^(\s*)- \[([ x])\]\s+(.+)$/
TaskItem(line) ==
  LET p == SkipWs(line, 1)
  IN IF /\ p + 4 <= Len(line)
        /\ SubSeq(line, p, p + 2) = <<"-", " ", "[">>
        /\ line[p + 3] \in {" ", "x"}
        /\ line[p + 4] = "]"
        /\ RestOk(line, p + 5)
       THEN [ok |-> TRUE, indent |-> p - 1,
             content |-> SubSeq(line, RestStart(line, p + 5), Len(line)),
             checked |-> line[p + 3] = "x"]
       ELSE NoItem

\* /^(\s*)[-*+]\s+(.+)$/
BulletItem(line) ==
  LET p == SkipWs(line, 1)
  IN IF p <= Len(line) /\ line[p] \in {"-", "*", "+"} /\ RestOk(line, p + 1)
       THEN [ok |-> TRUE, indent |-> p - 1,
             content |-> SubSeq(line, RestStart(line, p + 1), Len(line)),
             checked |-> FALSE]
       ELSE NoItem

\* /^(\s*)\d+\.\s+(.+)$/
NumberItem(line) ==
  LET p == SkipWs(line, 1)
      q == DigitsEnd(line, p)
  IN IF q > p /\ q <= Len(line) /\ line[q] = "." /\ RestOk(line, q + 1)
       THEN [ok |-> TRUE, indent |-> p - 1,
             content |-> SubSeq(line, RestStart(line, q + 1), Len(line)),
             checked |-> FALSE]
       ELSE NoItem

\* the item pattern of parseNestedList for the list type, with the replace
\* cascade applied to the content of bullet and numbered items
ItemMatch(line, listType) ==
  LET m == CASE listType = "task" -> TaskItem(line)
             [] listType = "bullet" -> BulletItem(line)
             [] OTHER -> NumberItem(line)
  IN IF m.ok /\ listType # "task"
       THEN [m EXCEPT !.content = ReplaceCascade(m.content, 1)]
       ELSE m

\* /^(\s*)[-*+]\s+/ and /^(\s*)\d+\.\s+/, the detectors of parseList
BulletStart(line) ==
  LET p == SkipWs(line, 1)
  IN p <= Len(line) /\ line[p] \in {"-", "*", "+"} /\ SkipWs(line, p + 1) > p + 1

NumberStart(line) ==
  LET p == SkipWs(line, 1)
      q == DigitsEnd(line, p)
  IN q > p /\ q <= Len(line) /\ line[q] = "." /\ SkipWs(line, q + 1) > q + 1

\* /^(\s*)([-*+]|\d+\.|-\s*\[[ x]\])\s+/, the look-ahead after a blank line
NextIsItem(line) ==
  LET p == SkipWs(line, 1)
      b == SkipWs(line, p + 1)
  IN \/ BulletStart(line)
     \/ NumberStart(line)
     \/ /\ p <= Len(line)
        /\ line[p] = "-"
        /\ b + 2 <= Len(line)
        /\ line[b] = "["
        /\ line[b + 1] \in {" ", "x"}
        /\ line[b + 2] = "]"
        /\ SkipWs(line, b + 3) > b + 3

\* the collecting loop of parseNestedList
RECURSIVE ScanList(_, _, _, _, _)
ScanList(lines, i, listType, baseIndent, items) ==
  IF i > Len(lines) THEN [items |-> items, nextIndex |-> i, baseIndent |-> baseIndent]
  ELSE LET line == lines[i]
           m == ItemMatch(line, listType)
           base == IF baseIndent = -1 THEN m.indent ELSE baseIndent
       IN IF ~m.ok
            THEN IF /\ Trim(line) = <<>>
                    /\ i + 1 <= Len(lines)
                    /\ NextIsItem(lines[i + 1])
                    /\ (baseIndent = -1 \/ SkipWs(lines[i + 1], 1) - 1 >= baseIndent)
                   THEN ScanList(lines, i + 1, listType, baseIndent, items)
                   ELSE [items |-> items, nextIndex |-> i, baseIndent |-> baseIndent]
          ELSE ScanList(lines, i + 1, listType, base,
                        Append(items, [indent |-> m.indent,
                                       indentLevel |-> (m.indent - base) \div 2,
                                       content |-> m.content,
                                       checked |-> m.checked,
                                       lineIndex |-> i]))

\* createListItemBlock of buildNestedList
createListItemBlock(listType, content, checked) ==
  LET cleanContent == cleanListContent(content)
  IN IF listType = "task" THEN createTodoBlock(cleanContent, checked)
     ELSE IF listType = "bullet" THEN createBulletedListItem(cleanContent)
     ELSE createNumberedListItem(cleanContent)

\* the pop loop of the tree construction: the stack holds item indices
RECURSIVE PopStack(_, _, _)
PopStack(items, nodeStack, level) ==
  IF nodeStack # <<>> /\ items[nodeStack[Len(nodeStack)]].indentLevel >= level
    THEN PopStack(items, SubSeq(nodeStack, 1, Len(nodeStack) - 1), level)
    ELSE nodeStack

\* the tree construction loop: parent[k] is the index of the node that item k
\* is pushed under, 0 for a root node
RECURSIVE BuildTree(_, _, _, _)
BuildTree(items, k, nodeStack, parent) ==
  IF k > Len(items) THEN parent
  ELSE LET popped == PopStack(items, nodeStack, items[k].indentLevel)
           p == IF popped = <<>> THEN 0 ELSE popped[Len(popped)]
       IN BuildTree(items, k + 1, Append(popped, k), Append(parent, p))

\* node.children, in push order (rootNodes for n = 0)
RECURSIVE ChildrenFrom(_, _, _)
ChildrenFrom(parent, n, k) ==
  IF k > Len(parent) THEN <<>>
  ELSE (IF parent[k] = n THEN <<k>> ELSE <<>>) \o ChildrenFrom(parent, n, k + 1)

NodeChildren(parent, n) == ChildrenFrom(parent, n, 1)

\* the marker of flattenTreeToBlocks for depth >= 3
Digits == <<"0", "1", "2", "3", "4", "5", "6", "7", "8", "9">>

RECURSIVE NumberToString(_)
NumberToString(n) ==
  IF n < 10 THEN <<Digits[n + 1]>> ELSE NumberToString(n \div 10) \o <<Digits[(n % 10) + 1]>>

\* the marker numbered by the 0-based depth instead of the level
IndentMarkerZeroBased(depth) == <<"[", "i", "n", "d">> \o NumberToString(depth) \o <<"]", " ">>

IndentMarker(depth) == <<"[", "i", "n", "d">> \o NumberToString(depth + 1) \o <<"]", " ">>

\* CanNest with the depth cap one level too deep
CanNestDeep(depth) == depth < 3

\* which depths may carry a children array
CanNest(depth) == depth < 2

\* flattenTreeToBlocks(nodes, depth, resultArray): the blocks pushed on resultArray
\* PushNode without the blocks below a node that may not nest
PushNodeDropBelow(block, hasChildren, below, depth) ==
  IF CanNest(depth) /\ hasChildren THEN <<("children" :> below) @@ block>> ELSE <<block>>

\* what one node pushes on resultArray: its block holding the blocks of its
\* children when it may nest, else its block followed by them
PushNode(block, hasChildren, below, depth) ==
  IF CanNest(depth) /\ hasChildren THEN <<("children" :> below) @@ block>>
  ELSE IF hasChildren THEN <<block>> \o below
  ELSE <<block>>

RECURSIVE flattenTreeToBlocks(_, _, _, _, _)
flattenTreeToBlocks(items, parent, listType, nodes, depth) ==
  IF nodes = <<>> THEN <<>>
  ELSE PushNode(createListItemBlock(listType,
                                    IF depth >= 3
                                      THEN IndentMarker(depth) \o items[Head(nodes)].content
                                      ELSE items[Head(nodes)].content,
                                    items[Head(nodes)].checked),
                Len(NodeChildren(parent, Head(nodes))) > 0,
                flattenTreeToBlocks(items, parent, listType,
                                    NodeChildren(parent, Head(nodes)), depth + 1),
                depth)
       \o flattenTreeToBlocks(items, parent, listType, Tail(nodes), depth)

buildNestedList(items, listType) ==
  IF Len(items) = 0 THEN <<>>
  ELSE LET parent == BuildTree(items, 1, <<>>, <<>>)
       IN flattenTreeToBlocks(items, parent, listType, NodeChildren(parent, 0), 0)

\* the return value of parseNestedList once the items are collected
NestedListResult(scan, listType) ==
  [ok |-> TRUE, blocks |-> buildNestedList(scan.items, listType), nextIndex |-> scan.nextIndex]

parseNestedList(lines, startIndex, listType) ==
  NestedListResult(ScanList(lines, startIndex, listType, -1, <<>>), listType)

\* parseList; ok = FALSE stands for null
parseList(lines, startIndex) ==
  LET line == lines[startIndex]
      listType == IF TaskItem(line).ok THEN "task"
                  ELSE IF BulletStart(line) THEN "bullet"
                  ELSE IF NumberStart(line) THEN "number"
                  ELSE "none"
  IN IF listType = "none" THEN [ok |-> FALSE, blocks |-> <<>>, nextIndex |-> startIndex]
     ELSE parseNestedList(lines, startIndex, listType)

\* ------------------------------------------------------------------------
\* markdownToNotionBlocks: one iteration of the main loop
\* ------------------------------------------------------------------------
Fence == <<Backtick, Backtick, Backtick>>

\* the closing-fence test of the inner loop
IsClosingFence(currentLine) ==
  StartsWith(TrimStart(currentLine), Fence) /\ Trim(TrimStart(currentLine)) = Fence

\* the fenced-code rule from the opening line i: the block and the next index
FencedCode(lines, i) ==
  LET line == lines[i]
      trimmedLine == TrimStart(line)
      leadingSpaces == Len(line) - Len(trimmedLine)
      afterFence == Trim(SubSeq(trimmedLine, 4, Len(trimmedLine)))
      language == IF afterFence # <<>> THEN afterFence ELSE <<"p", "l", "a", "i", "n", " ", "t", "e", "x", "t">>
      indent == SubSeq(line, 1, leadingSpaces)
      closers == {j \in (i + 1)..Len(lines) : IsClosingFence(lines[j])}
      close == IF closers = {} THEN Len(lines) + 1 ELSE Min(closers)
      codeLines == [k \in 1..(close - i - 1) |->
                      LET currentLine == lines[i + k]
                      IN IF indent # <<>> /\ StartsWith(currentLine, indent)
                           THEN SubSeq(currentLine, Len(indent) + 1, Len(currentLine))
                           ELSE currentLine]
  IN [blocks |-> <<createCodeBlock(Join(codeLines, <<"\n">>), language)>>,
      nextIndex |-> close + 1]

\* /^(#{1,6})\s+(.+)$/
HeadingLevel(line) == SameEnd(line, 1, "#") - 1

IsHeading(line) ==
  HeadingLevel(line) >= 1 /\ HeadingLevel(line) <= 6 /\ RestOk(line, HeadingLevel(line) + 1)

HeadingText(line) == SubSeq(line, RestStart(line, HeadingLevel(line) + 1), Len(line))

\* /^(-{3,}|_{3,}|\*{3,})$/
IsHorizontalRule(line) ==
  /\ Len(line) >= 3
  /\ line[1] \in {"-", "_", "*"}
  /\ \A k \in 1..Len(line) : line[k] = line[1]

\* /^!\[(.*?)\]\((.*?)\)$/: the first "](" whose parenthesis lies before the
\* final ")" ends the alt text; the URL runs to the final ")"
ImageSplit(line) ==
  LET P == {k \in 3..(Len(line) - 2) : line[k] = "]" /\ line[k + 1] = "("}
  IN IF /\ StartsWith(line, <<"!", "[">>)
        /\ line[Len(line)] = ")"
        /\ P # {}
       THEN Min(P) ELSE 0

\* the table rule: a table block when parseTable gave a table with headers,
\* else the rules that follow
TableStep(tableData, otherwise) ==
  IF tableData.ok /\ Len(tableData.headers) > 0
    THEN [blocks |-> <<createTableBlock(tableData.headers, tableData.rows)>>,
          nextIndex |-> tableData.nextIndex]
    ELSE otherwise

\* the blockquote rule: a callout or a quote block
QuoteStep(quoteData) ==
  [blocks |-> <<IF quoteData.isCallout
                  THEN createCalloutBlock(quoteData.content, quoteData.emoji, quoteData.type)
                  ELSE createQuoteBlock(quoteData.content)>>,
   nextIndex |-> quoteData.nextIndex]

\* the list rule: the blocks of parseList unless it gave null, else the rules
\* that follow
ListStep(listData, otherwise) ==
  IF listData.ok THEN [blocks |-> listData.blocks, nextIndex |-> listData.nextIndex]
  ELSE otherwise

\* [A-Z] and [a-z]
IsUpper(c) ==
  c \in {"A", "B", "C", "D", "E", "F", "G", "H", "I", "J", "K", "L", "M", "N", "O", "P", "Q", "R",
         "S", "T", "U", "V", "W", "X", "Y", "Z"}

IsLower(c) ==
  c \in {"a", "b", "c", "d", "e", "f", "g", "h", "i", "j", "k", "l", "m", "n", "o", "p", "q", "r",
         "s", "t", "u", "v", "w", "x", "y", "z"}

\* the two arrows: the character U+2192 and the two characters "->"
Arrows == << <<"U+2192">>, <<"-", ">">> >>

\* [A-Z][a-z]+ starting at position p and ending at e, for some e
WordAt(line, p, e) ==
  /\ p >= 1 /\ e > p /\ e <= Len(line)
  /\ IsUpper(line[p])
  /\ \A k \in (p + 1)..e : IsLower(line[k])

\* /[A-Z][a-z]+(?:\s*ARROW\s*[A-Z][a-z]+)+/.test(line)
hasPattern(line, arrow) ==
  \E p \in {q \in 1..Len(line) : IsUpper(line[q])} : \E e \in (p + 1)..Len(line) :
    /\ WordAt(line, p, e)
    /\ SkipWs(line, e + 1) + Len(arrow) - 1 <= Len(line)
    /\ SubSeq(line, SkipWs(line, e + 1), SkipWs(line, e + 1) + Len(arrow) - 1) = arrow
    /\ WordAt(line, SkipWs(line, SkipWs(line, e + 1) + Len(arrow)),
              SkipWs(line, SkipWs(line, e + 1) + Len(arrow)) + 1)

\* line.split(/ARROW1|ARROW2/).length - 1: the places of the line where an
\* arrow starts (no two arrows overlap)
ArrowCount(line) ==
  Cardinality({k \in 1..Len(line) :
                 \/ line[k] = "U+2192"
                 \/ k < Len(line) /\ line[k] = "-" /\ line[k + 1] = ">"})

\* the test of the flowchart rule: hasArrow && (hasPattern || hasMultipleParts)
isFlowchartLine(line) ==
  /\ ArrowCount(line) >= 1
  /\ \/ hasPattern(line, Arrows[1])
     \/ hasPattern(line, Arrows[2])
     \/ ArrowCount(line) + 1 >= 3

\* the image rule, the flowchart rule and the default: one block from the
\* line alone
LineStep(line, i) ==
  [blocks |-> <<IF ImageSplit(line) # 0
                  THEN createImageBlock(SubSeq(line, ImageSplit(line) + 2, Len(line) - 1),
                                        SubSeq(line, 3, ImageSplit(line) - 1))
                ELSE IF isFlowchartLine(line) THEN createParagraphBlock(line)
                ELSE createParagraphBlock(line)>>,
   nextIndex |-> i + 1]

\* One iteration of the while loop at cursor i (1-based): the blocks it pushes
\* and the value of the cursor after it.
MainLoopStep(lines, i) ==
  LET line == lines[i]
      one(b) == [blocks |-> <<b>>, nextIndex |-> i + 1]
  IN IF Trim(line) = <<>> THEN [blocks |-> <<>>, nextIndex |-> i + 1]
     ELSE IF StartsWith(TrimStart(line), Fence) THEN FencedCode(lines, i)
     ELSE IF IsHeading(line) THEN one(createHeadingBlock(HeadingLevel(line), HeadingText(line)))
     ELSE IF IsHorizontalRule(line) THEN one(createDividerBlock)
     ELSE TableStep(
            IF Includes(line, "|") THEN parseTable(lines, i)
            ELSE [ok |-> FALSE, headers |-> <<>>, rows |-> <<>>, nextIndex |-> i],
            IF StartsWith(line, <<">", " ">>) THEN QuoteStep(parseBlockquote(lines, i))
            ELSE ListStep(parseList(lines, i), LineStep(line, i)))

\* what one iteration at cursor lo leaves: an iteration that leaves the
\* cursor where it was pushes nothing and repeats for ever (hung = TRUE, the
\* function never returns)
AfterStep(step, lo) ==
  [blocks |-> step.blocks, nextIndex |-> step.nextIndex, hung |-> step.nextIndex <= lo]

\* the run of iterations `right` following the run `left`
ThenRun(left, right) ==
  [blocks |-> left.blocks \o right.blocks, nextIndex |-> right.nextIndex, hung |-> right.hung]

\* The while loop run from cursor lo until the cursor reaches hi or beyond:
\* the blocks pushed, the cursor it stops at, and whether it hung.  The
\* iterations are sequential; the range is halved only to keep the
\* evaluation shallow.
RECURSIVE TokenizeRange(_, _, _)
RECURSIVE ContinueRange(_, _, _)
ContinueRange(lines, left, hi) ==
  IF left.hung THEN left ELSE ThenRun(left, TokenizeRange(lines, left.nextIndex, hi))

TokenizeRange(lines, lo, hi) ==
  IF lo >= hi THEN [blocks |-> <<>>, nextIndex |-> lo, hung |-> FALSE]
  ELSE IF hi - lo = 1 THEN AfterStep(MainLoopStep(lines, lo), lo)
  ELSE ContinueRange(lines, TokenizeRange(lines, lo, (lo + hi) \div 2), hi)

\* the outcome of the loop: the blocks returned, or hung
LoopOutcome(run) == [blocks |-> run.blocks, hung |-> run.hung]

TokenizeFrom(lines, i) == LoopOutcome(TokenizeRange(lines, i, Len(lines) + 1))

markdownToNotionBlocks(lines) == TokenizeFrom(lines, 1)

\* ------------------------------------------------------------------------
\* extractAndValidatePageId, formatNotionId
\* ------------------------------------------------------------------------
RemoveHyphens(s) == Flatten([k \in 1..Len(s) |-> IF s[k] = "-" THEN <<>> ELSE <<s[k]>>])

\* /^[a-f0-9]{32}$/i
IsHex32(s) == Len(s) = 32 /\ \A k \in 1..32 : IsHex(s[k])

formatNotionId(id) ==
  LET cleanId == RemoveHyphens(id)
  IN IF Len(cleanId) # 32 THEN id
     ELSE SubSeq(cleanId, 1, 8) \o <<"-">> \o SubSeq(cleanId, 9, 12) \o <<"-">>
          \o SubSeq(cleanId, 13, 16) \o <<"-">> \o SubSeq(cleanId, 17, 20) \o <<"-">>
          \o SubSeq(cleanId, 21, 32)

\* new URL(u).pathname for u = scheme://rest; <<>> stands for the constructor
\* throwing (empty authority, white space in the authority)
UrlPathname(rest) ==
  LET stops == {k \in 1..Len(rest) : rest[k] \in {"/", "?", "#"}}
      authEnd == IF stops = {} THEN Len(rest) ELSE Min(stops) - 1
      auth == SubSeq(rest, 1, authEnd)
      ends == {k \in (authEnd + 1)..Len(rest) : rest[k] \in {"?", "#"}}
      pathEnd == IF ends = {} THEN Len(rest) ELSE Min(ends) - 1
      path == SubSeq(rest, authEnd + 1, pathEnd)
  IN IF auth = <<>> \/ \E k \in 1..Len(auth) : IsWs(auth[k]) THEN <<>>
     ELSE IF path = <<>> THEN <<"/">> ELSE path

\* the result of extractAndValidatePageId: ok = FALSE stands for a thrown Error
extractAndValidatePageId(input) ==
  LET trimmed == Trim(input)
      isHttp == StartsWith(trimmed, HttpPrefix)
      isHttps == StartsWith(trimmed, HttpsPrefix)
      pathname == UrlPathname(SubSeq(trimmed, (IF isHttps THEN 8 ELSE 7) + 1, Len(trimmed)))
      last32 == SubSeq(pathname, Len(pathname) - 31, Len(pathname))
      cleanId == RemoveHyphens(trimmed)
      fail(msg) == [ok |-> FALSE, id |-> <<>>, error |-> msg]
  IN IF trimmed = <<>> THEN fail("Parent page ID is required")
     ELSE IF isHttp \/ isHttps
       THEN IF Len(pathname) >= 32 /\ IsHex32(last32)
              THEN [ok |-> TRUE, id |-> formatNotionId(last32), error |-> ""]
              ELSE fail("Invalid Notion page URL format")
     ELSE IF ~IsHex32(cleanId)
       THEN fail("Invalid page ID format. Expected 32-character hex string.")
     ELSE [ok |-> TRUE, id |-> formatNotionId(cleanId), error |-> ""]

\* ------------------------------------------------------------------------
\* handleCreatePage / createNotionPage: one export run
\* ------------------------------------------------------------------------
VARIABLES
  data,      \* the CREATE_NOTION_PAGE request: apiToken, title, markdown, parentPageId, sourceUrl
  pc,        \* where the run stands: "start", "awaitCreate", "awaitAppend", "hung", "done"
  blocks,    \* createNotionPage's blocks (after the placeholder and the unshift)
  page,      \* the page object the create call returned, NoPage before
  i,         \* the index of the append loop (offset into remainingBlocks)
  pending,   \* batches the running appendBlocksToPage call has still to send
  calls,     \* every notionRequest issued, in order, with its outcome
  progress,  \* every sendProgressUpdate made, in order
  result     \* the value handleCreatePage resolved with, NoResult before

exportVars == <<data, pc, blocks, page, i, pending, calls, progress, result>>

MAX_BLOCKS_PER_REQUEST == 100

NoPage == [id |-> "", url |-> ""]

NoResult == [success |-> FALSE, pending |-> TRUE]

\* the page object of a successful POST /pages
CreatedPage == [id |-> "page-id", url |-> "https://www.notion.so/page-id"]

\* RequestError without the validation of the parent page id
RequestErrorNoIdCheck(d) ==
  IF d.apiToken = <<>> THEN "Notion API token is required"
  ELSE IF d.title = <<>> THEN "Page title is required"
  ELSE IF d.markdown = <<<<>>>> THEN "Markdown content is required"
  ELSE ""

\* the first failing check of handleCreatePage, "" when the request passes
RequestError(d) ==
  IF d.apiToken = <<>> THEN "Notion API token is required"
  ELSE IF d.title = <<>> THEN "Page title is required"
  ELSE IF d.markdown = <<<<>>>> THEN "Markdown content is required"
  ELSE extractAndValidatePageId(d.parentPageId).error

Placeholder ==
  [type |-> "paragraph", rich_text |-> <<PlainRun(<<"(", "C", "o", "n", "t", "e", "n", "t", " ", "c", "o", "u", "l", "d", " ", "n", "o", "t", " ", "b", "e", " ", "c", "o", "n", "v", "e", "r", "t", "e", "d", ")">>)>>]

\* the source-link callout that is unshifted when sourceUrl is given
SourceCallout(sourceUrl) ==
  [type |-> "callout",
   rich_text |-> << PlainRun(<<"I", "m", "p", "o", "r", "t", "e", "d", " ", "f", "r", "o", "m", " ", "C", "o", "n", "f", "l", "u", "e", "n", "c", "e", ":", " ">>),
                    [content |-> sourceUrl, annotations |-> {}, link |-> sourceUrl] >>,
   icon |-> "page facing up",
   color |-> "gray_background"]

\* PageBlocks without the placeholder for an empty block list
PageBlocksNoPlaceholder(tokenized, sourceUrl) ==
  IF sourceUrl # <<>> THEN <<SourceCallout(sourceUrl)>> \o tokenized ELSE tokenized

\* blocks as createNotionPage holds them before slicing
PageBlocks(tokenized, sourceUrl) ==
  LET withPlaceholder == IF Len(tokenized) = 0 THEN <<Placeholder>> ELSE tokenized
  IN IF sourceUrl # <<>> THEN <<SourceCallout(sourceUrl)>> \o withPlaceholder ELSE withPlaceholder

\* Array.prototype.slice(from, to), 0-based and end-exclusive
Slice(a, from, to) == SubSeq(a, from + 1, IF to < Len(a) THEN to ELSE Len(a))

initialBlocks(bs) == Slice(bs, 0, MAX_BLOCKS_PER_REQUEST)

\* remainingBlocks with the slice begun one block late
remainingBlocksLate(bs) == Slice(bs, MAX_BLOCKS_PER_REQUEST + 1, Len(bs))

remainingBlocks(bs) == Slice(bs, MAX_BLOCKS_PER_REQUEST, Len(bs))

chunkAt(bs, k) == Slice(remainingBlocks(bs), k, k + MAX_BLOCKS_PER_REQUEST)

totalChunks(bs) ==
  (Len(remainingBlocks(bs)) + MAX_BLOCKS_PER_REQUEST - 1) \div MAX_BLOCKS_PER_REQUEST

\* 80 + Math.floor((chunkIndex / totalChunks) * 15)
chunkProgress(k, bs) ==
  LET chunkIndex == (k \div MAX_BLOCKS_PER_REQUEST) + 1
  IN 80 + ((chunkIndex * 15) \div totalChunks(bs))

\* the requests one appendBlocksToPage call makes for its blocks, in order
RECURSIVE appendBatches(_)
appendBatches(bs) ==
  IF Len(bs) <= MAX_BLOCKS_PER_REQUEST THEN <<bs>>
  ELSE <<Slice(bs, 0, MAX_BLOCKS_PER_REQUEST)>>
       \o appendBatches(Slice(bs, MAX_BLOCKS_PER_REQUEST, Len(bs)))

Report(percent, status) == [percent |-> percent, status |-> status]

\* a notionRequest as it is issued; `first` is the position in blocks of its
\* first child
Request(endpoint, children, first) ==
  [endpoint |-> endpoint, children |-> children, first |-> first, status |-> "pending"]

Settle(cs, status) == [cs EXCEPT ![Len(cs)].status = status]

\* the catch block of handleCreatePage
Caught(message) ==
  /\ progress' = Append(progress, Report(50, "error"))
  /\ result' = [success |-> FALSE, error |-> message]
  /\ pc' = "done"

\* createNotionPage from the block list bs to the POST /pages request
SendCreate(bs) ==
  /\ progress' = progress \o <<Report(55, "start"), Report(60, "convert"),
                               Report(65, "generated"), Report(70, "create")>>
  /\ blocks' = bs
  /\ calls' = Append(calls, Request("POST /pages", initialBlocks(bs), 1))
  /\ pc' = "awaitCreate"
  /\ UNCHANGED <<data, page, i, pending, result>>

\* createNotionPage from the outcome of markdownToNotionBlocks on: when the
\* tokenizer hangs the run stays in it after the report of 60
Convert(tokenized) ==
  IF tokenized.hung
    THEN /\ progress' = progress \o <<Report(55, "start"), Report(60, "convert")>>
         /\ pc' = "hung"
         /\ UNCHANGED <<data, blocks, page, i, pending, calls, result>>
    ELSE SendCreate(PageBlocks(tokenized.blocks, data.sourceUrl))

\* handleCreatePage up to the first await: validation, then createNotionPage
\* up to the POST /pages request
HandleCreatePage ==
  /\ pc = "start"
  /\ IF RequestError(data) # ""
       THEN /\ Caught(RequestError(data))
            /\ calls' = calls
            /\ UNCHANGED <<data, blocks, page, i, pending>>
       ELSE Convert(markdownToNotionBlocks(data.markdown))

\* the first request of appendBlocksToPage for the chunk at loop index k
StartChunk(k, reports) ==
  LET batches == appendBatches(chunkAt(blocks', k))
  IN /\ progress' = progress \o reports \o <<Report(chunkProgress(k, blocks'), "upload")>>
     /\ calls' = Append(Settle(calls, "ok"),
                        Request("PATCH /blocks/children", Head(batches),
                                MAX_BLOCKS_PER_REQUEST + k + 1))
     /\ pending' = Tail(batches)
     /\ i' = k
     /\ pc' = "awaitAppend"
     /\ result' = result

\* the return of createNotionPage and of handleCreatePage
Finish(reports) ==
  /\ progress' = progress \o reports \o <<Report(95, "finalize")>>
  /\ calls' = Settle(calls, "ok")
  /\ result' = [success |-> TRUE, pageUrl |-> page'.url, pageId |-> page'.id]
  /\ pc' = "done"
  /\ UNCHANGED <<i, pending>>

\* POST /pages answers 2xx
CreateSucceeds ==
  /\ pc = "awaitCreate"
  /\ page' = CreatedPage
  /\ UNCHANGED <<data, blocks>>
  /\ IF Len(remainingBlocks(blocks)) > 0
       THEN StartChunk(0, <<Report(80, "created")>>)
       ELSE Finish(<<Report(80, "created")>>)

\* POST /pages fails: notionRequest throws, handleCreatePage catches
CreateFails ==
  /\ pc = "awaitCreate"
  /\ calls' = Settle(calls, "failed")
  /\ Caught("API error")
  /\ UNCHANGED <<data, blocks, page, i, pending>>

\* PATCH /blocks/{id}/children answers 2xx
AppendSucceeds ==
  /\ pc = "awaitAppend"
  /\ UNCHANGED <<data, blocks, page>>
  /\ IF pending # <<>>
       THEN /\ calls' = Append(Settle(calls, "ok"),
                               Request("PATCH /blocks/children", Head(pending),
                                       calls[Len(calls)].first + Len(calls[Len(calls)].children)))
            /\ pending' = Tail(pending)
            /\ UNCHANGED <<i, pc, progress, result>>
       ELSE IF i + MAX_BLOCKS_PER_REQUEST < Len(remainingBlocks(blocks))
         THEN StartChunk(i + MAX_BLOCKS_PER_REQUEST, <<>>)
         ELSE Finish(<<>>)

\* AppendFails with the failed batch sent again
AppendFailsRetry ==
  /\ pc = "awaitAppend"
  /\ calls' = Append(Settle(calls, "failed"),
                     Request("PATCH /blocks/children", calls[Len(calls)].children,
                             calls[Len(calls)].first))
  /\ UNCHANGED <<data, blocks, page, i, pending, pc, progress, result>>

\* PATCH /blocks/{id}/children fails
AppendFails ==
  /\ pc = "awaitAppend"
  /\ calls' = Settle(calls, "failed")
  /\ Caught("API error")
  /\ UNCHANGED <<data, blocks, page, i, pending>>

\* ------------------------------------------------------------------------
\* The tokenizer's main loop as a state machine (one iteration per step)
\* ------------------------------------------------------------------------
VARIABLES
  tokLines,   \* lines, the array the loop runs over
  tokI,       \* i, the cursor
  tokBlocks,  \* blocks pushed so far
  tokPrev     \* the value of i when the latest iteration began (0 before the first)

tokVars == <<tokLines, tokI, tokBlocks, tokPrev>>

\* one iteration of while (i < lines.length)
TokStep ==
  /\ tokI <= Len(tokLines)
  /\ LET step == MainLoopStep(tokLines, tokI)
     IN /\ tokBlocks' = tokBlocks \o step.blocks
        /\ tokI' = step.nextIndex
  /\ tokPrev' = tokI
  /\ UNCHANGED tokLines

\* ------------------------------------------------------------------------
\* parseList applied to a run of list lines
\* ------------------------------------------------------------------------
VARIABLES
  listLines,  \* the lines handed to parseList (from index 0)
  listOut     \* what parseList returned, NoList before the call

listVars == <<listLines, listOut>>

NoList == [ok |-> FALSE, blocks |-> <<>>, nextIndex |-> 0]

ParseListCall ==
  /\ listOut = NoList
  /\ listOut' = parseList(listLines, 1)
  /\ UNCHANGED listLines

\* ------------------------------------------------------------------------
\* The table rule of the main loop applied to a run of lines
\* ------------------------------------------------------------------------
VARIABLES
  tblLines,   \* the lines handed to parseTable (from index 0)
  tblOut      \* the table block pushed, NoTable before the call or when parseTable gave null

tblVars == <<tblLines, tblOut>>

NoTable == [type |-> "none", called |-> FALSE]

TableRule ==
  /\ tblOut = NoTable
  /\ LET tableData == parseTable(tblLines, 1)
     IN tblOut' = IF tableData.ok /\ Len(tableData.headers) > 0
                    THEN createTableBlock(tableData.headers, tableData.rows)
                    ELSE [type |-> "none", called |-> TRUE]
  /\ UNCHANGED tblLines

\* ------------------------------------------------------------------------
\* The content script's Markdown rules (stage 1): confluenceCodeBlock
\* ------------------------------------------------------------------------
\* the while loop of the fence choice: the first count from fenceCount on
\* whose run of backticks codeContent does not include
RECURSIVE FenceCount(_, _)
FenceCount(codeContent, fenceCount) ==
  IF IncludesSeq(codeContent, Rep(Backtick, fenceCount))
    THEN FenceCount(codeContent, fenceCount + 1)
    ELSE fenceCount

codeFence(codeContent) ==
  IF IncludesSeq(codeContent, Fence) THEN Rep(Backtick, FenceCount(codeContent, 4)) ELSE Fence

\* the replacement of the confluenceCodeBlock rule for a <pre> element with
\* the given language and text content
confluenceCodeBlock(language, codeContent) ==
  <<"\n", "\n">> \o codeFence(codeContent)
  \o (IF language # <<>> THEN <<" ">> \o language ELSE <<>>)
  \o <<"\n">> \o codeContent \o <<"\n">> \o codeFence(codeContent) \o <<"\n", "\n">>

\* ------------------------------------------------------------------------
\* Stage 1: infoPanel
\* ------------------------------------------------------------------------
\* the emoji table of the rule, with its || fallback
panelEmoji(type) ==
  CASE type = "info" -> <<"U+2139", "U+FE0F">>
    [] type = "warning" -> <<"U+26A0", "U+FE0F">>
    [] type = "note" -> <<"U+1F4DD">>
    [] type = "tip" -> <<"U+1F4A1">>
    [] OTHER -> <<"U+2139", "U+FE0F">>

\* replace(/\n{3,}/g, '\n\n')
CollapseBlankLines(s) ==
  Flatten([k \in 1..Len(s) |->
             IF s[k] = "\n" /\ k >= 3 /\ s[k - 1] = "\n" /\ s[k - 2] = "\n" THEN <<>> ELSE <<s[k]>>])

\* the replacement of the infoPanel rule for a panel of the given
\* data-panel-type ("" when the attribute is empty) and Markdown content
infoPanel(type, content) ==
  LET cleanedContent == CollapseBlankLines(Trim(content))
  IN <<"\n", ">", " ">> \o panelEmoji(IF type = "" THEN "info" ELSE type)
     \o (IF cleanedContent = <<>> THEN <<>> ELSE <<" ">> \o cleanedContent)
     \o <<"\n", "\n">>

\* ------------------------------------------------------------------------
\* Stage 1: confluenceTable.  A table is the array of its <tr> rows, a row
\* the array of its cells, a cell [text, rowspan, colspan] with the integer
\* values of the two attributes (0 when the attribute is absent or no number)
\* ------------------------------------------------------------------------
\* the null a grid position holds until a cell is written to it
NullCell == <<"null">>

\* parseInt(cell.getAttribute(...)) || 1
SpanAttr(n) == IF n = 0 THEN 1 ELSE n

\* the first pass: the sum of the colspans of the first row
RECURSIVE columnCount(_)
columnCount(firstRowCells) ==
  IF firstRowCells = <<>> THEN 0
  ELSE SpanAttr(Head(firstRowCells).colspan) + columnCount(Tail(firstRowCells))

\* trim(), replace(/\n+/g, ' '), replace(/\s+/g, ' '): every run of white
\* space inside the text becomes one space
CollapseWs(s) ==
  Flatten([k \in 1..Len(s) |->
             IF ~IsWs(s[k]) THEN <<s[k]>>
             ELSE IF k > 1 /\ IsWs(s[k - 1]) THEN <<>> ELSE <<" ">>])

\* replace(/\|/g, '\\|')
EscapePipes(s) == Flatten([k \in 1..Len(s) |-> IF s[k] = "|" THEN <<"\\", "|">> ELSE <<s[k]>>])

\* the content of a cell: text || ' '
cellText(textContent) ==
  IF EscapePipes(CollapseWs(Trim(textContent))) = <<>> THEN <<" ">>
  ELSE EscapePipes(CollapseWs(Trim(textContent)))

\* what the position r rows below and c columns right of the origin gets,
\* with the cell's text written to every position of the span
spanCellAllText(r, c, text) == text

\* what the position r rows below and c columns right of the origin gets
spanCell(r, c, text) == IF r = 0 /\ c = 0 THEN text ELSE <<" ">>

\* the two nested for loops: the span of the cell written from
\* grid[rowIndex][colIndex], clipped to the grid
\* (SubSeq makes the evaluator build each array at once)
PlaceCell(grid, rowIndex, colIndex, cell) ==
  SubSeq([r \in 1..Len(grid) |->
            SubSeq([c \in 1..Len(grid[r]) |->
                      IF /\ r >= rowIndex /\ r - rowIndex < SpanAttr(cell.rowspan)
                         /\ c >= colIndex /\ c - colIndex < SpanAttr(cell.colspan)
                        THEN spanCell(r - rowIndex, c - colIndex, cellText(cell.text))
                        ELSE grid[r][c]],
                   1, Len(grid[r]))],
         1, Len(grid))

\* the while loop: the next column of the row at or after colIndex that is
\* still null (one past the row when there is none)
RECURSIVE NextFree(_, _)
NextFree(rowData, colIndex) ==
  IF colIndex <= Len(rowData) /\ rowData[colIndex] # NullCell
    THEN NextFree(rowData, colIndex + 1)
    ELSE colIndex

\* cells.forEach of one row from its cell k on: a cell that finds no free
\* column is dropped, and so is every cell after it
RECURSIVE FillCells(_, _, _, _, _)
RECURSIVE FillFrom(_, _, _, _, _)
FillFrom(grid, rowIndex, cells, k, colIndex) ==
  IF colIndex > Len(grid[rowIndex]) THEN grid
  ELSE FillCells(PlaceCell(grid, rowIndex, colIndex, cells[k]), rowIndex, cells, k + 1,
                 colIndex + SpanAttr(cells[k].colspan))

FillCells(grid, rowIndex, cells, k, colIndex) ==
  IF k > Len(cells) THEN grid
  ELSE FillFrom(grid, rowIndex, cells, k, NextFree(grid[rowIndex], colIndex))

\* rows.forEach: the second pass from row rowIndex on
RECURSIVE FillRows(_, _, _)
FillRows(grid, rows, rowIndex) ==
  IF rowIndex > Len(rows) THEN grid
  ELSE FillRows(FillCells(grid, rowIndex, rows[rowIndex], 1, 1), rows, rowIndex + 1)

\* the third pass: one Markdown line per grid row, nulls shown as a space,
\* and the separator line after the first
gridLine(rowData) ==
  <<"|", " ">>
  \o Join([c \in 1..Len(rowData) |-> IF rowData[c] = NullCell THEN <<" ">> ELSE rowData[c]],
          <<" ", "|", " ">>)
  \o <<" ", "|", "\n">>

separatorLine(n) == <<"|">> \o Flatten([k \in 1..n |-> <<" ", "-", "-", "-", " ", "|">>]) \o <<"\n">>

gridMarkdown(grid) ==
  <<"\n", "\n">>
  \o Flatten([r \in 1..Len(grid) |->
                gridLine(grid[r]) \o (IF r = 1 THEN separatorLine(Len(grid[1])) ELSE <<>>)])
  \o <<"\n">>

\* the filter of the rule: a table with rows whose first row has cells
tableFilter(rows) == Len(rows) > 0 /\ Len(rows[1]) > 0

\* the grid after the second pass and the rule's replacement
TableResult(grid) == [columnCount |-> Len(grid[1]), grid |-> grid, markdown |-> gridMarkdown(grid)]

confluenceTable(rows) ==
  TableResult(FillRows([r \in 1..Len(rows) |-> [c \in 1..columnCount(rows[1]) |-> NullCell]],
                       rows, 1))

\* ------------------------------------------------------------------------
\* The popup's page-id parser: extractNotionPageId
\* ------------------------------------------------------------------------
\* url.searchParams.get(name) for u = scheme://rest: the value of the first
\* name=value pair of the query, <<>> when there is none (no escapes decoded)
RECURSIVE FirstParam(_, _)
FirstParam(pairs, name) ==
  IF pairs = <<>> THEN <<>>
  ELSE IF Split(Head(pairs), "=")[1] = name
    THEN SubSeq(Head(pairs), Len(name) + 2, Len(Head(pairs)))
  ELSE FirstParam(Tail(pairs), name)

UrlSearchParam(rest, name) ==
  LET hash == NextPos(rest, "#", 1)
      beforeHash == IF hash = 0 THEN rest ELSE SubSeq(rest, 1, hash - 1)
      q == NextPos(beforeHash, "?", 1)
  IN IF q = 0 THEN <<>>
     ELSE FirstParam(Split(SubSeq(beforeHash, q + 1, Len(beforeHash)), "&"), name)

\* the result of extractNotionPageId: ok = FALSE stands for null
extractNotionPageId(input) ==
  LET trimmed == Trim(input)
      isHttp == StartsWith(trimmed, HttpPrefix)
      isHttps == StartsWith(trimmed, HttpsPrefix)
      rest == SubSeq(trimmed, (IF isHttps THEN 8 ELSE 7) + 1, Len(trimmed))
      pathname == UrlPathname(rest)
      last32 == SubSeq(pathname, Len(pathname) - 31, Len(pathname))
      pageId == UrlSearchParam(rest, <<"p", "a", "g", "e", "I", "d">>)
      cleanId == RemoveHyphens(trimmed)
      null == [ok |-> FALSE, id |-> <<>>]
  IN IF trimmed = <<>> THEN null
     ELSE IF isHttp \/ isHttps
       THEN IF pathname = <<>> THEN null
            ELSE IF Len(pathname) >= 32 /\ IsHex32(last32)
              THEN [ok |-> TRUE, id |-> formatNotionId(last32)]
            ELSE IF pageId # <<>> THEN [ok |-> TRUE, id |-> formatNotionId(pageId)]
            ELSE null
     ELSE IF IsHex32(cleanId) THEN [ok |-> TRUE, id |-> formatNotionId(cleanId)]
     ELSE null



\* ------------------------------------------------------------------------
\* One call of a function of the converter, or one stage-1 rule followed by
\* the tokenizer on the Markdown it emitted
\* ------------------------------------------------------------------------
VARIABLES
  call,       \* [fn, arg]: the function or rule applied and its argument
  callPc,     \* "call" before it is applied, "markdown" when Markdown awaits the tokenizer, "done"
  callRet,    \* what the function returned, <<>> before the call
  callMd,     \* the lines of the Markdown handed to markdownToNotionBlocks
  callBlocks  \* what markdownToNotionBlocks returned for callMd

callVars == <<call, callPc, callRet, callMd, callBlocks>>

NoBlocks == [blocks |-> <<>>, hung |-> FALSE]

\* the call returns r
Returns(r) ==
  /\ callPc = "call"
  /\ callRet' = r
  /\ callPc' = "done"
  /\ UNCHANGED <<call, callMd, callBlocks>>

\* the rule emits the Markdown text md, which goes on to the tokenizer
Emits(md) ==
  /\ callPc = "call"
  /\ callMd' = Split(md, "\n")
  /\ callPc' = "markdown"
  /\ UNCHANGED <<call, callBlocks>>

NormalizeLanguageCall == call.fn = "normalizeLanguage" /\ Returns(normalizeLanguage(call.arg))

ParseInlineCall == call.fn = "parseInlineMarkdown" /\ Returns(parseInlineMarkdown(call.arg))

ExtractPageIdCall ==
  call.fn = "extractAndValidatePageId" /\ Returns(extractAndValidatePageId(call.arg))

ExtractNotionPageIdCall == call.fn = "extractNotionPageId" /\ Returns(extractNotionPageId(call.arg))

\* the rule's output followed by the Markdown of what follows the <pre>
CodeBlockRule ==
  /\ call.fn = "confluenceCodeBlock"
  /\ Emits(confluenceCodeBlock(call.arg.language, call.arg.codeContent) \o call.arg.after)
  /\ UNCHANGED callRet

InfoPanelRule ==
  /\ call.fn = "infoPanel"
  /\ Emits(infoPanel(call.arg.type, call.arg.content))
  /\ UNCHANGED callRet

ConfluenceTableRule ==
  /\ call.fn = "confluenceTable"
  /\ tableFilter(call.arg)
  /\ Emits(confluenceTable(call.arg).markdown)
  /\ callRet' = confluenceTable(call.arg)

\* the background worker tokenizes the Markdown
TokenizeMarkdown ==
  /\ callPc = "markdown"
  /\ callBlocks' = markdownToNotionBlocks(callMd)
  /\ callPc' = "done"
  /\ UNCHANGED <<call, callRet, callMd>>

\* ------------------------------------------------------------------------
\* Two export runs in one background worker, each with the popup that sent
\* its CREATE_NOTION_PAGE message.  A run is cut at its awaits; the code
\* between two awaits runs without interruption.
\* ------------------------------------------------------------------------
VARIABLES
  runReq,           \* per run: [valid, chunks]: whether the request passes validation, and
                    \* how many chunks of remainingBlocks the run uploads
  runPc,            \* per run: "start", "awaitCreate", "awaitAppend", "done"
  runChunk,         \* per run: chunkIndex of the append loop
  currentProgress,  \* the module-level let currentProgress
  progressUpdate,   \* the entry 'progressUpdate' of chrome.storage.local, NoEntry when absent
  listening,        \* per popup: progressListener is registered and the interval is running
  shown             \* per popup: the reports passed to updateProgress by the listener and the poll

runVars == <<runReq, runPc, runChunk, currentProgress, progressUpdate, listening, shown>>

Runs == {1, 2}

MaxRunChunks == 2

\* the poll is cut off once a popup has been shown this many reports
MaxShown == 6

NoEntry == [percent |-> -1, status |-> "", run |-> 0]

\* the arguments of one sendProgressUpdate call; run names the export run
\* that made the call (kept for the properties: the program stores no such field)
Sent(r, percent, status) == [percent |-> percent, status |-> status, run |-> r]

\* sendProgressUpdate called for each of reports in turn: currentProgress and
\* the storage entry end as the last one, every registered progressListener
\* is handed each PROGRESS_UPDATE message
sendProgressUpdate(reports) ==
  /\ currentProgress' = reports[Len(reports)]
  /\ progressUpdate' = reports[Len(reports)]
  /\ shown' = [p \in Runs |-> IF listening[p] THEN shown[p] \o reports ELSE shown[p]]

\* 80 + Math.floor((chunkIndex / totalChunks) * 15)
uploadProgress(chunkIndex, total) == 80 + ((chunkIndex * 15) \div total)

\* handleCreatePage to its first await
RunStart(r) ==
  /\ runPc[r] = "start"
  /\ IF runReq[r].valid
       THEN /\ sendProgressUpdate(<<Sent(r, 55, "start"), Sent(r, 60, "convert"),
                                    Sent(r, 65, "generated"), Sent(r, 70, "create")>>)
            /\ runPc' = [runPc EXCEPT ![r] = "awaitCreate"]
       ELSE /\ sendProgressUpdate(<<Sent(r, 50, "error")>>)
            /\ runPc' = [runPc EXCEPT ![r] = "done"]
  /\ UNCHANGED <<runReq, runChunk, listening>>

\* POST /pages answers 2xx
RunCreateSucceeds(r) ==
  /\ runPc[r] = "awaitCreate"
  /\ IF runReq[r].chunks > 0
       THEN /\ sendProgressUpdate(<<Sent(r, 80, "created"),
                                    Sent(r, uploadProgress(1, runReq[r].chunks), "upload")>>)
            /\ runPc' = [runPc EXCEPT ![r] = "awaitAppend"]
            /\ runChunk' = [runChunk EXCEPT ![r] = 1]
       ELSE /\ sendProgressUpdate(<<Sent(r, 80, "created"), Sent(r, 95, "finalize")>>)
            /\ runPc' = [runPc EXCEPT ![r] = "done"]
            /\ runChunk' = runChunk
  /\ UNCHANGED <<runReq, listening>>

\* PATCH /blocks/{id}/children answers 2xx for the last batch of a chunk
RunAppendSucceeds(r) ==
  /\ runPc[r] = "awaitAppend"
  /\ IF runChunk[r] < runReq[r].chunks
       THEN /\ sendProgressUpdate(<<Sent(r, uploadProgress(runChunk[r] + 1, runReq[r].chunks), "upload")>>)
            /\ runChunk' = [runChunk EXCEPT ![r] = @ + 1]
            /\ runPc' = runPc
       ELSE /\ sendProgressUpdate(<<Sent(r, 95, "finalize")>>)
            /\ runPc' = [runPc EXCEPT ![r] = "done"]
            /\ runChunk' = runChunk
  /\ UNCHANGED <<runReq, listening>>

\* a request fails: notionRequest throws, handleCreatePage catches
RunRequestFails(r) ==
  /\ runPc[r] \in {"awaitCreate", "awaitAppend"}
  /\ sendProgressUpdate(<<Sent(r, 50, "error")>>)
  /\ runPc' = [runPc EXCEPT ![r] = "done"]
  /\ UNCHANGED <<runReq, runChunk, listening>>

\* the popup's setInterval callback: the stored entry is shown
PopupPoll(p) ==
  /\ listening[p]
  /\ progressUpdate # NoEntry
  /\ shown' = [shown EXCEPT ![p] = Append(@, progressUpdate)]
  /\ UNCHANGED <<runReq, runPc, runChunk, currentProgress, progressUpdate, listening>>

\* the popup has the response of its run: listener removed, interval
\* cleared, the storage entry removed
PopupSettles(p) ==
  /\ listening[p]
  /\ runPc[p] = "done"
  /\ listening' = [listening EXCEPT ![p] = FALSE]
  /\ progressUpdate' = NoEntry
  /\ UNCHANGED <<runReq, runPc, runChunk, currentProgress, shown>>

\* ------------------------------------------------------------------------
\* The popup: handleSendToNotion with sendToContentScript, cut at its awaits
\* ------------------------------------------------------------------------
VARIABLES
  sendPc,            \* "idle", "step1", "step2", "attempt", "retryWait", "converted", "create",
                     \* "finish", "done": the await handleSendToNotion stands at
  view,              \* the view showView made visible
  listenerOn,        \* progressListener is registered with chrome.runtime.onMessage
  intervalOn,        \* progressPollInterval is running
  attempt,           \* i, the loop index of sendToContentScript
  sent,              \* the calls of chrome.tabs.sendMessage(tab.id, message) made by this call
  scriptsInjected,   \* scriptsInjected of sendToContentScript
  percent            \* the last percent passed to updateProgress

popupVars == <<sendPc, view, listenerOn, intervalOn, attempt, sent, scriptsInjected, percent>>

\* the default of the parameter retries, which every caller leaves as it is
retries == 5

\* the percents the background worker reports
ReportedPercents == {50, 55, 60, 65, 70, 80, 95}

\* a catch block that leaves the polling interval running
ShowErrorKeepInterval ==
  /\ listenerOn' = FALSE
  /\ intervalOn' = intervalOn
  /\ view' = "error"
  /\ sendPc' = "done"

\* the catch block of handleSendToNotion
ShowError ==
  /\ listenerOn' = FALSE
  /\ intervalOn' = FALSE
  /\ view' = "error"
  /\ sendPc' = "done"

\* a click on sendToNotion or on retry: handleSendToNotion to its first await
HandleSendToNotion ==
  /\ sendPc \in {"idle", "done"}
  /\ view \in {"main", "error"}
  /\ view' = "processing"
  /\ listenerOn' = TRUE
  /\ intervalOn' = TRUE
  /\ percent' = 5
  /\ sendPc' = "step1"
  /\ attempt' = 0
  /\ sent' = 0
  /\ scriptsInjected' = FALSE

\* the first 100 ms have passed
Step1Done ==
  /\ sendPc = "step1"
  /\ percent' = 10
  /\ sendPc' = "step2"
  /\ UNCHANGED <<view, listenerOn, intervalOn, attempt, sent, scriptsInjected>>

\* the second 100 ms have passed: sendToContentScript up to its first send
\* (getCurrentTab, the connection test and the injection have settled), or
\* an exception before the loop
Step2Done ==
  /\ sendPc = "step2"
  /\ \E threw \in BOOLEAN, injected \in BOOLEAN :
       IF threw
         THEN /\ ShowError
              /\ percent' = 20
              /\ UNCHANGED <<attempt, sent, scriptsInjected>>
         ELSE /\ percent' = 20
              /\ scriptsInjected' = injected
              /\ attempt' = 0
              /\ sent' = 1
              /\ sendPc' = "attempt"
              /\ UNCHANGED <<view, listenerOn, intervalOn>>

\* the race of one send is won by a response of the content script
AttemptResponds ==
  /\ sendPc = "attempt"
  /\ \E success \in BOOLEAN :
       IF success
         THEN /\ percent' = 40
              /\ sendPc' = "converted"
              /\ UNCHANGED <<view, listenerOn, intervalOn>>
         ELSE /\ ShowError
              /\ percent' = percent
  /\ UNCHANGED <<attempt, sent, scriptsInjected>>

\* one send fails: a connection error or the 5 s timeout (listed), or an
\* empty response or another error (not listed)
AttemptFails ==
  /\ sendPc = "attempt"
  /\ percent' = percent
  /\ \E listed \in BOOLEAN, injected \in BOOLEAN, threw \in BOOLEAN :
       IF attempt = retries - 1 \/ threw
         THEN /\ ShowError
              /\ UNCHANGED <<attempt, sent, scriptsInjected>>
       ELSE IF listed
         THEN /\ scriptsInjected' = (scriptsInjected \/ injected)
              /\ sendPc' = "retryWait"
              /\ UNCHANGED <<view, listenerOn, intervalOn, attempt, sent>>
         ELSE /\ attempt' = attempt + 1
              /\ sent' = sent + 1
              /\ UNCHANGED <<sendPc, view, listenerOn, intervalOn, scriptsInjected>>

\* the wait before a retry and the connection test after it have settled:
\* continue, and the next send
RetryWaitDone ==
  /\ sendPc = "retryWait"
  /\ attempt' = attempt + 1
  /\ sent' = sent + 1
  /\ sendPc' = "attempt"
  /\ UNCHANGED <<view, listenerOn, intervalOn, scriptsInjected, percent>>

\* the 200 ms have passed: the parent page id is checked and
\* CREATE_NOTION_PAGE is sent
Converted ==
  /\ sendPc = "converted"
  /\ percent' = 50
  /\ \E valid \in BOOLEAN :
       IF valid
         THEN /\ sendPc' = "create"
              /\ UNCHANGED <<view, listenerOn, intervalOn>>
         ELSE ShowError
  /\ UNCHANGED <<attempt, sent, scriptsInjected>>

\* the race of createPagePromise and the 5-minute timeout settles
CreateSettles ==
  /\ sendPc = "create"
  /\ \E outcome \in {"success", "failure", "undefined", "rejected", "timeout"} :
       /\ percent' = IF outcome \in {"rejected", "timeout"} THEN percent ELSE 100
       /\ IF outcome = "success"
            THEN /\ listenerOn' = FALSE
                 /\ intervalOn' = FALSE
                 /\ sendPc' = "finish"
                 /\ view' = view
            ELSE ShowError
  /\ UNCHANGED <<attempt, sent, scriptsInjected>>

\* the 500 ms have passed: the success view
FinishDelay ==
  /\ sendPc = "finish"
  /\ view' = "success"
  /\ sendPc' = "done"
  /\ UNCHANGED <<listenerOn, intervalOn, attempt, sent, scriptsInjected, percent>>

\* progressListener is handed a PROGRESS_UPDATE message
ProgressMessage ==
  /\ listenerOn
  /\ \E p \in ReportedPercents : percent' = p
  /\ UNCHANGED <<sendPc, view, listenerOn, intervalOn, attempt, sent, scriptsInjected>>

\* the interval fires and finds a recent entry in the storage
ProgressPoll ==
  /\ intervalOn
  /\ \E p \in ReportedPercents : percent' = p
  /\ UNCHANGED <<sendPc, view, listenerOn, intervalOn, attempt, sent, scriptsInjected>>

\* the steps of handleSendToNotion that follow an await
SendStep ==
  \/ Step1Done \/ Step2Done \/ AttemptResponds \/ AttemptFails \/ RetryWaitDone
  \/ Converted \/ CreateSettles \/ FinishDelay

\* ------------------------------------------------------------------------
\* Inputs
\* ------------------------------------------------------------------------
\* all sequences over S of length 1..n
OneLonger(shorter, S) ==
  {<<x>> : x \in S} \cup shorter \cup {Append(s, x) : s \in shorter, x \in S}

RECURSIVE SeqsUpTo(_, _)
SeqsUpTo(S, n) == IF n = 0 THEN {} ELSE OneLonger(SeqsUpTo(S, n - 1), S)

MaxChunks == 2

MaxTokLines == 3

MaxItems == 5

MaxTableLines == 4

SampleId == <<"2", "d", "a", "d", "c", "a", "9", "a", "3", "f", "f", "f", "8", "0", "2", "7", "8", "2", "9", "5", "e", "2", "3", "7", "2", "0", "d", "d", "2", "a", "5", "3">>

ApiTokens == {<<>>, <<"s", "e", "c", "r", "e", "t">>}

Titles == {<<>>, <<"T">>}

ParentIds == {<<>>, SampleId, <<"n", "o", "t", "-", "a", "-", "v", "a", "l", "i", "d", "-", "i", "d">>, <<"h", "t", "t", "p", "s", ":", "/", "/", "x", ".", "t", "l", "d", "/", "P", "a", "g", "e", "-">> \o SampleId}

SourceUrls == {<<>>, <<"h", "t", "t", "p", "s", ":", "/", "/", "c", ".", "e", "x", "a", "m", "p", "l", "e", "/", "p">>, <<"h", "t", "t", "p", "s", ":", "/", "/", "c", ".", "e", "x", "a", "m", "p", "l", "e", "/">> \o Rep("a", MAX_TEXT_LENGTH)}

\* a document of n distinct paragraph lines p1, p2, ...
NumberedDoc(n) == [k \in 1..n |-> <<"p">> \o NumberToString(k)]

DocSizes == {k * MAX_BLOCKS_PER_REQUEST + d : k \in 0..MaxChunks, d \in {1, 50, 99, 100}}

SpecialDocs ==
  { << <<>> >>,
    << <<" ">>, <<>> >>,
    << <<"-", " ">> >>,
    << <<"#", " ", "t">>, <<"!", "[", "d", "i", "a", "g", "r", "a", "m", "]", "(", "d", "a", "t", "a", ":", "i", "m", "a", "g", "e", "/", "p", "n", "g", ";", "b", "a", "s", "e", "6", "4", ",">> \o Rep("A", MAX_TEXT_LENGTH) \o <<")">> >>,
    << <<"*", "*">> \o Rep("b", MAX_TEXT_LENGTH + 1) \o <<"*", "*">>, Fence, Rep("c", MAX_CODE_LENGTH + 1), Fence >>,
    << <<"-", " ", "a">>, <<" ", " ", "-", " ", "b">>, <<"|", "h", "|", "k", "|">>, <<"|", "-", "|", "-", "|">>, <<"|", "c", "|">>, <<">", " ", "q">> >> }

Markdowns == {NumberedDoc(n) : n \in DocSizes} \cup SpecialDocs

TokLineSamples ==
  { <<>>, <<"t", "e", "x", "t">>, <<"-", " ">>, <<"-", " ", "a">>, <<" ", " ", "-", " ", "b">>, <<"1", ".", " ", "x">>, <<"#", " ", "h">>, <<"|", "a", "|", "b", "|">>, <<">", " ", "q">>, Fence, Rep(Backtick, 4),
    <<"A", "b", " ", "-", ">", " ", "C", "d">>, <<"A", "b", " ", "-", ">", " ", "C", "d", " ", "*", "*", "x", "*", "*">>, <<"a", " ", "U+2192", " ", "b", " ", "U+2192", " ", "_", "c", "_">>,
    <<"!", "[", "a", "]", "(", "u", ")">>,
    <<"!", "[", "a", "]", "(", "h", "t", "t", "p", ":", "/", "/", ")">>, <<"!", "[", "a", "]", "(", "/", "/", "h", "/", "i", ".", "p", "n", "g", ")">>, <<"[", "t", "]", "(", "/", "/", "h", "/", "p", ")", " ", "[", "u", "]", "(", "f", "t", "p", ":", "/", "/", "h", ")">>,
    <<"#", "#", " ", "h">>, <<"#", "#", "#", "#", " ", "h">>, <<"#", "#", "#", "#", "#", "#", " ", " ", "h">>, <<"#", "#", "#", "#", "#", "#", "#", " ", "h">> }

ListMarkers == {<<"-", " ">>, <<"1", ".", " ">>, <<"-", " ", "[", "x", "]", " ">>}

ListIndents == {0, 2, 4, 6, 8}

\* the lines of a list whose items carry the given marker and indents
ListDoc(marker, indents) ==
  [k \in 1..Len(indents) |-> Rep(" ", indents[k]) \o marker \o <<"i">> \o NumberToString(k)]

MaxBlankRun == 3

\* two list lines with a run of blank lines between them, and a line after
BlankRunDocs ==
  {<<first>> \o Rep(blank, n) \o <<second, <<"-", " ", "c">>>> :
     first \in {<<"-", " ", "a">>, <<" ", " ", "-", " ", "a">>, <<"1", ".", " ", "a">>},
     blank \in {<<>>, <<" ">>},
     n \in 1..MaxBlankRun,
     second \in {<<"-", " ", "b">>, <<" ", " ", "-", " ", "b">>, <<" ", " ", " ", " ", "*", " ", "b">>, <<"2", ".", " ", "b">>, <<"t", "e", "x", "t">>}}

\* lists of 1..4 items, each one level deeper than the one before, whose
\* items all hold the same content with numbering left in it
ArtifactDocs ==
  {[k \in 1..n |-> Rep(" ", 2 * (k - 1)) \o marker \o content] :
     n \in 1..4,
     marker \in {<<"-", " ">>, <<"1", ".", " ">>},
     content \in {<<"x">>, <<"1", ".", " ", "x">>, <<"1", "1", ".", " ", "x">>, <<"1", ".", " ", "2", ".", " ", "x">>, <<"3", ".", "1", ".", " ", "1", ".", " ", "x">>, <<"1", "[", "1", ".", "x", "]">>}}

TableLineSamples == {<<"|", "a", "|", "b", "|">>, <<"|", "a", "|">>, <<"|", " ", "a", " ", "|", " ", "b", " ", "|", " ", "c", " ", "|">>, <<"|", "-", "|", "-", "|">>, <<"a", "|", "b">>, <<"t", "e", "x", "t">>}

\* the characters of a string
Chars(str) == [k \in 1..Len(str) |-> SubSeq(str, k, k)]

MaxBackticks == 4

MaxHtmlRows == 3

MaxPlainLen == 3

LanguageInputs ==
  {Chars(s) : s \in validNotionLanguages}
  \cup {Chars(langMapEntries[k][1]) : k \in 1..Len(langMapEntries)}
  \cup {Chars(s) : s \in {"JS", " Python ", "TypeScript", "C#", "F#", "VB", "Dockerfile", " ", "brainfuck",
                          "language-js", "c sharp", "plain", "objective c", "Shell", "YAML "}}

\* code with a run of 0..MaxBackticks backticks at the start, in the middle
\* or at the end of a line
CodeContents ==
  {pre \o Rep(Backtick, n) \o post :
     n \in 0..MaxBackticks,
     pre \in {<<>>, <<"a">>, <<"a", "\n">>},
     post \in {<<>>, <<"b">>, <<"\n", "b">>}}

CodeBlockInputs ==
  [language : {<<>>, <<"j", "s">>}, codeContent : CodeContents, after : {<<>>, <<"t", "a", "i", "l">>}]

PanelInputs ==
  [type : {"", "info", "warning", "note", "tip", "error"},
   content : {<<>>, <<"t", "e", "x", "t">>, <<" ", "a", "\n", "\n", "\n", "\n", "b", " ">>, <<"*", "*", "b", "*", "*", " ", "c">>}]

CalloutEmoji ==
  {<<"U+2139", "U+FE0F">>, <<"U+26A0", "U+FE0F">>, <<"U+1F4DD">>, <<"U+1F4A1">>, <<"U+2705">>,
   <<"U+274C">>, <<"U+1F514">>, <<"U+1F4AC">>}

\* blockquotes that start with an emoji, and two that do not
QuoteDocs ==
  UNION {{ << <<">", " ">> \o e \o <<" ", "t", "e", "x", "t">> >>,
           << <<">", " ">> \o e \o <<"t", "e", "x", "t">> >>,
           << <<">", " ">> \o e >>,
           << <<">", " ">> \o e \o <<" ", "a">>, <<">", " ", "b">> >>,
           << <<">", " ">> \o e \o <<" ", "a">>, <<"a", "f", "t", "e", "r">> >> } : e \in CalloutEmoji}
  \cup { << <<">", " ", "p", "l", "a", "i", "n">> >>, << <<">", " ", "U+1F600">> \o <<" ", "s", "m", "i", "l", "e">> >> }

HtmlCell(text, rowspan, colspan) == [text |-> text, rowspan |-> rowspan, colspan |-> colspan]

HtmlRowSamples ==
  { << HtmlCell(<<"h", "1">>, 0, 0), HtmlCell(<<"h", "2">>, 0, 0), HtmlCell(<<"h", "3">>, 0, 0) >>,
    << HtmlCell(<<"a">>, 2, 2), HtmlCell(<<"b">>, 1, 1) >>,
    << HtmlCell(<<"a">>, 1, 1), HtmlCell(<<"b">>, 2, 2) >>,
    << HtmlCell(<<"a">>, 2, 2) >>,
    << HtmlCell(<<"a">>, 1, 1) >>,
    << HtmlCell(<<"a">>, 3, 1), HtmlCell(<<"b">>, 1, 2), HtmlCell(<<"c">>, 2, 2) >>,
    << HtmlCell(<<" ", "x", " ", "|", "\n", " ", "y", " ">>, 0, 0), HtmlCell(<<>>, 1, 3) >>,
    << HtmlCell(<<"a">>, 1, 1), HtmlCell(<<"b">>, 1, 1), HtmlCell(<<"c">>, 1, 1), HtmlCell(<<"d">>, 1, 1) >>,
    << HtmlCell(<<"a">>, 1, 3) >>,
    << HtmlCell(<<"-">>, 1, 1), HtmlCell(<<":">>, 0, 0) >>,
    <<>> }

TableInputs == {t \in SeqsUpTo(HtmlRowSamples, MaxHtmlRows) : tableFilter(t)}

UpperSampleId == [k \in 1..32 |-> IF SampleId[k] \in {"a", "d"} THEN "D" ELSE SampleId[k]]

PageIdInputs ==
  { <<>>, <<" ">>, SampleId, UpperSampleId, <<" ">> \o SampleId \o <<" ">>,
    formatNotionId(SampleId),
    <<"2", "-">> \o Tail(SampleId),
    SubSeq(SampleId, 1, 16) \o <<"-">> \o SubSeq(SampleId, 17, 32),
    Tail(SampleId), SampleId \o <<"0">>,
    <<"g">> \o Tail(SampleId),
    <<"n", "o", "t", "-", "a", "-", "v", "a", "l", "i", "d", "-", "i", "d">>,
    <<"h", "t", "t", "p", "s", ":", "/", "/", "w", "w", "w", ".", "n", "o", "t", "i", "o", "n", ".", "s", "o", "/", "P", "a", "g", "e", "-">> \o SampleId,
    <<"h", "t", "t", "p", "s", ":", "/", "/", "w", "w", "w", ".", "n", "o", "t", "i", "o", "n", ".", "s", "o", "/", "P", "a", "g", "e", "-">> \o SampleId \o <<"?", "v", "=", "1">>,
    <<"h", "t", "t", "p", "s", ":", "/", "/", "w", "w", "w", ".", "n", "o", "t", "i", "o", "n", ".", "s", "o", "/">> \o SampleId,
    <<"h", "t", "t", "p", "s", ":", "/", "/", "w", "w", "w", ".", "n", "o", "t", "i", "o", "n", ".", "s", "o", "/", "w", "s", "/", "P", "a", "g", "e">> \o SampleId,
    <<"h", "t", "t", "p", "s", ":", "/", "/", "w", "w", "w", ".", "n", "o", "t", "i", "o", "n", ".", "s", "o", "/", "P", "a", "g", "e", "-">> \o formatNotionId(SampleId),
    <<"h", "t", "t", "p", "s", ":", "/", "/", "w", "w", "w", ".", "n", "o", "t", "i", "o", "n", ".", "s", "o", "/", "P", "a", "g", "e">>,
    <<"h", "t", "t", "p", "s", ":", "/", "/", "w", "w", "w", ".", "n", "o", "t", "i", "o", "n", ".", "s", "o", "/", "x", "?", "p", "a", "g", "e", "I", "d", "=", "f", "o", "o">>,
    <<"h", "t", "t", "p", "s", ":", "/", "/", "w", "w", "w", ".", "n", "o", "t", "i", "o", "n", ".", "s", "o", "/", "x", "?", "p", "a", "g", "e", "I", "d", "=">> \o SampleId,
    <<"h", "t", "t", "p", "s", ":", "/", "/">> }

PlainChars == {"a", "B", " ", ".", "1"}

PlainTexts ==
  SeqsUpTo(PlainChars, MaxPlainLen)
  \cup {<<>>, Rep("a", MAX_TEXT_LENGTH), Rep("a", MAX_TEXT_LENGTH + 1), Rep("a", 2 * MAX_TEXT_LENGTH + 1)}

MarkedTexts == {<<"*", "*", "B", "*", "*">>, <<"a", "*", "B">>, <<"[", "a", "]", "(", "h", "t", "t", "p", ":", "/", "/", "h", ")">>, <<"~", "~", "a", "~", "~", " ", "B">>}

Calls ==
  {[fn |-> "normalizeLanguage", arg |-> a] : a \in LanguageInputs}
  \cup {[fn |-> "parseInlineMarkdown", arg |-> a] : a \in PlainTexts \cup MarkedTexts}
  \cup {[fn |-> "extractAndValidatePageId", arg |-> a] : a \in PageIdInputs}
  \cup {[fn |-> "extractNotionPageId", arg |-> a] : a \in PageIdInputs}
  \cup {[fn |-> "confluenceCodeBlock", arg |-> a] : a \in CodeBlockInputs}
  \cup {[fn |-> "infoPanel", arg |-> a] : a \in PanelInputs}
  \cup {[fn |-> "confluenceTable", arg |-> a] : a \in TableInputs}
  \cup {[fn |-> "markdown", arg |-> a] : a \in QuoteDocs}

\* ------------------------------------------------------------------------
\* Specifications
\* ------------------------------------------------------------------------
vars == <<exportVars, tokVars, listVars, tblVars, callVars, runVars, popupVars>>

ExportIdle ==
  /\ data = [apiToken |-> <<>>, title |-> <<>>, markdown |-> <<<<>>>>, parentPageId |-> <<>>,
             sourceUrl |-> <<>>]
  /\ pc = "done"
  /\ blocks = <<>>
  /\ page = NoPage
  /\ i = 0
  /\ pending = <<>>
  /\ calls = <<>>
  /\ progress = <<>>
  /\ result = NoResult

TokIdle == tokLines = <<>> /\ tokI = 1 /\ tokBlocks = <<>> /\ tokPrev = 0

ListIdle == listLines = <<>> /\ listOut = NoList

TblIdle == tblLines = <<>> /\ tblOut = NoTable

CallIdle ==
  /\ call = [fn |-> "none", arg |-> <<>>]
  /\ callPc = "done"
  /\ callRet = <<>>
  /\ callMd = <<>>
  /\ callBlocks = NoBlocks

RunsIdle ==
  /\ runReq = [r \in Runs |-> [valid |-> FALSE, chunks |-> 0]]
  /\ runPc = [r \in Runs |-> "done"]
  /\ runChunk = [r \in Runs |-> 0]
  /\ currentProgress = [percent |-> 0, status |-> "", run |-> 0]
  /\ progressUpdate = NoEntry
  /\ listening = [p \in Runs |-> FALSE]
  /\ shown = [p \in Runs |-> <<>>]

PopupIdle ==
  /\ sendPc = "done"
  /\ view = "main"
  /\ listenerOn = FALSE
  /\ intervalOn = FALSE
  /\ attempt = 0
  /\ sent = 0
  /\ scriptsInjected = FALSE
  /\ percent = 0

\* a CREATE_NOTION_PAGE message arrives
ExportInit ==
  /\ data \in [apiToken : ApiTokens, title : Titles, markdown : Markdowns,
               parentPageId : ParentIds, sourceUrl : SourceUrls]
  /\ pc = "start"
  /\ blocks = <<>>
  /\ page = NoPage
  /\ i = 0
  /\ pending = <<>>
  /\ calls = <<>>
  /\ progress = <<>>
  /\ result = NoResult

Init == ExportInit /\ TokIdle /\ ListIdle /\ TblIdle /\ CallIdle /\ RunsIdle /\ PopupIdle

Next ==
  \/ HandleCreatePage /\ UNCHANGED <<tokVars, listVars, tblVars, callVars, runVars, popupVars>>
  \/ CreateSucceeds /\ UNCHANGED <<tokVars, listVars, tblVars, callVars, runVars, popupVars>>
  \/ CreateFails /\ UNCHANGED <<tokVars, listVars, tblVars, callVars, runVars, popupVars>>
  \/ AppendSucceeds /\ UNCHANGED <<tokVars, listVars, tblVars, callVars, runVars, popupVars>>
  \/ AppendFails /\ UNCHANGED <<tokVars, listVars, tblVars, callVars, runVars, popupVars>>

Spec == Init /\ [][Next]_vars

TokInit ==
  /\ tokLines \in SeqsUpTo(TokLineSamples, MaxTokLines)
  /\ tokI = 1
  /\ tokBlocks = <<>>
  /\ tokPrev = 0
  /\ ExportIdle /\ ListIdle /\ TblIdle /\ CallIdle /\ RunsIdle /\ PopupIdle

TokNext == TokStep /\ UNCHANGED <<exportVars, listVars, tblVars, callVars, runVars, popupVars>>

SpecTok == TokInit /\ [][TokNext]_vars

ListInit ==
  /\ listLines \in {ListDoc(m, ind) : m \in ListMarkers, ind \in SeqsUpTo(ListIndents, MaxItems)}
                   \cup BlankRunDocs \cup ArtifactDocs
  /\ listOut = NoList
  /\ ExportIdle /\ TokIdle /\ TblIdle /\ CallIdle /\ RunsIdle /\ PopupIdle

ListNext == ParseListCall /\ UNCHANGED <<exportVars, tokVars, tblVars, callVars, runVars, popupVars>>

SpecList == ListInit /\ [][ListNext]_vars

TblInit ==
  /\ tblLines \in SeqsUpTo(TableLineSamples, MaxTableLines)
  /\ tblOut = NoTable
  /\ ExportIdle /\ TokIdle /\ ListIdle /\ CallIdle /\ RunsIdle /\ PopupIdle

TblNext == TableRule /\ UNCHANGED <<exportVars, tokVars, listVars, callVars, runVars, popupVars>>

SpecTable == TblInit /\ [][TblNext]_vars

\* a function is called, or a stage-1 rule fires and its Markdown is tokenized
CallInit ==
  /\ call \in Calls
  /\ callPc = IF call.fn = "markdown" THEN "markdown" ELSE "call"
  /\ callRet = <<>>
  /\ callMd = IF call.fn = "markdown" THEN call.arg ELSE <<>>
  /\ callBlocks = NoBlocks
  /\ ExportIdle /\ TokIdle /\ ListIdle /\ TblIdle /\ RunsIdle /\ PopupIdle

CallNext ==
  \/ NormalizeLanguageCall /\ UNCHANGED <<exportVars, tokVars, listVars, tblVars, runVars, popupVars>>
  \/ ParseInlineCall /\ UNCHANGED <<exportVars, tokVars, listVars, tblVars, runVars, popupVars>>
  \/ ExtractPageIdCall /\ UNCHANGED <<exportVars, tokVars, listVars, tblVars, runVars, popupVars>>
  \/ ExtractNotionPageIdCall /\ UNCHANGED <<exportVars, tokVars, listVars, tblVars, runVars, popupVars>>
  \/ CodeBlockRule /\ UNCHANGED <<exportVars, tokVars, listVars, tblVars, runVars, popupVars>>
  \/ InfoPanelRule /\ UNCHANGED <<exportVars, tokVars, listVars, tblVars, runVars, popupVars>>
  \/ ConfluenceTableRule /\ UNCHANGED <<exportVars, tokVars, listVars, tblVars, runVars, popupVars>>
  \/ TokenizeMarkdown /\ UNCHANGED <<exportVars, tokVars, listVars, tblVars, runVars, popupVars>>

SpecCalls == CallInit /\ [][CallNext]_vars

\* two popups have registered their listeners and sent CREATE_NOTION_PAGE
RunsInit ==
  /\ runReq \in [Runs -> [valid : BOOLEAN, chunks : 0..MaxRunChunks]]
  /\ runPc = [r \in Runs |-> "start"]
  /\ runChunk = [r \in Runs |-> 0]
  /\ currentProgress = [percent |-> 0, status |-> "", run |-> 0]
  /\ progressUpdate = NoEntry
  /\ listening = [p \in Runs |-> TRUE]
  /\ shown = [p \in Runs |-> <<>>]
  /\ ExportIdle /\ TokIdle /\ ListIdle /\ TblIdle /\ CallIdle /\ PopupIdle

RunsNext ==
  \/ \E r \in Runs : RunStart(r) /\ UNCHANGED <<exportVars, tokVars, listVars, tblVars, callVars, popupVars>>
  \/ \E r \in Runs : RunCreateSucceeds(r) /\ UNCHANGED <<exportVars, tokVars, listVars, tblVars, callVars, popupVars>>
  \/ \E r \in Runs : RunAppendSucceeds(r) /\ UNCHANGED <<exportVars, tokVars, listVars, tblVars, callVars, popupVars>>
  \/ \E r \in Runs : RunRequestFails(r) /\ UNCHANGED <<exportVars, tokVars, listVars, tblVars, callVars, popupVars>>
  \/ \E p \in Runs : PopupPoll(p) /\ Len(shown[p]) < MaxShown /\ UNCHANGED <<exportVars, tokVars, listVars, tblVars, callVars, popupVars>>
  \/ \E p \in Runs : PopupSettles(p) /\ UNCHANGED <<exportVars, tokVars, listVars, tblVars, callVars, popupVars>>

SpecRuns == RunsInit /\ [][RunsNext]_vars

\* the popup shows its main view
PopupInit ==
  /\ sendPc = "idle"
  /\ view = "main"
  /\ listenerOn = FALSE
  /\ intervalOn = FALSE
  /\ attempt = 0
  /\ sent = 0
  /\ scriptsInjected = FALSE
  /\ percent = 0
  /\ ExportIdle /\ TokIdle /\ ListIdle /\ TblIdle /\ CallIdle /\ RunsIdle

PopupNext ==
  \/ HandleSendToNotion /\ UNCHANGED <<exportVars, tokVars, listVars, tblVars, callVars, runVars>>
  \/ Step1Done /\ UNCHANGED <<exportVars, tokVars, listVars, tblVars, callVars, runVars>>
  \/ Step2Done /\ UNCHANGED <<exportVars, tokVars, listVars, tblVars, callVars, runVars>>
  \/ AttemptResponds /\ UNCHANGED <<exportVars, tokVars, listVars, tblVars, callVars, runVars>>
  \/ AttemptFails /\ UNCHANGED <<exportVars, tokVars, listVars, tblVars, callVars, runVars>>
  \/ RetryWaitDone /\ UNCHANGED <<exportVars, tokVars, listVars, tblVars, callVars, runVars>>
  \/ Converted /\ UNCHANGED <<exportVars, tokVars, listVars, tblVars, callVars, runVars>>
  \/ CreateSettles /\ UNCHANGED <<exportVars, tokVars, listVars, tblVars, callVars, runVars>>
  \/ FinishDelay /\ UNCHANGED <<exportVars, tokVars, listVars, tblVars, callVars, runVars>>
  \/ ProgressMessage /\ UNCHANGED <<exportVars, tokVars, listVars, tblVars, callVars, runVars>>
  \/ ProgressPoll /\ UNCHANGED <<exportVars, tokVars, listVars, tblVars, callVars, runVars>>

SpecPopup == PopupInit /\ [][PopupNext]_vars

\* every awaited promise or its timeout settles in the end
SpecPopupFair == SpecPopup /\ WF_vars(SendStep /\ UNCHANGED <<exportVars, tokVars, listVars, tblVars, callVars, runVars>>)

\* ------------------------------------------------------------------------
\* Properties of the export run (specification Spec)
\* ------------------------------------------------------------------------
\* the text of a rich_text array: the contents of its runs, concatenated
RunContents(runs) == Flatten([k \in 1..Len(runs) |-> runs[k].content])

\* the children of every request issued so far, in call order
SentBlocks == Flatten([k \in 1..Len(calls) |-> calls[k].children])

\* the number of append-children calls a list of n blocks needs
AppendCallsFor(n) == ((IF n > 100 THEN n - 100 ELSE 0) + 99) \div 100

\* C1: for a block list of N >= 1 blocks (the source callout included), the
\* first call is the create-page call and carries the first min(N, 100)
\* blocks, every later call is an append-children call carrying 1..100
\* blocks, what has been sent is at every moment a prefix of the block list
\* in its order, and a run that succeeds has issued exactly
\* 1 + ceil(max(N - 100, 0) / 100) calls whose concatenation is the block list.
C1_Batching ==
  LET N == Len(blocks)
  IN calls # <<>> =>
       /\ N >= 1
       /\ calls[1].endpoint = "POST /pages"
       /\ Len(calls[1].children) = (IF N < 100 THEN N ELSE 100)
       /\ \A k \in 2..Len(calls) :
            /\ calls[k].endpoint = "PATCH /blocks/children"
            /\ Len(calls[k].children) >= 1
            /\ Len(calls[k].children) <= 100
       /\ Len(SentBlocks) <= N
       /\ SentBlocks = SubSeq(blocks, 1, Len(SentBlocks))
       /\ Len(calls) <= 1 + AppendCallsFor(N)
       /\ (pc = "done" /\ result.success) =>
            /\ Len(calls) = 1 + AppendCallsFor(N)
            /\ SentBlocks = blocks

\* C1 witness: 150 blocks were exported with one create call of 100 blocks
\* followed by one append call of 50.
C1_Witness ==
  /\ pc = "done"
  /\ result.success
  /\ Len(blocks) = 150
  /\ Len(calls) = 2
  /\ calls[1].endpoint = "POST /pages" /\ Len(calls[1].children) = 100
  /\ calls[2].endpoint = "PATCH /blocks/children" /\ Len(calls[2].children) = 50

InvalidRequest ==
  \/ data.apiToken = <<>>
  \/ data.title = <<>>
  \/ data.markdown = << <<>> >>
  \/ ~extractAndValidatePageId(data.parentPageId).ok

\* C4: a request with a missing API token, title or Markdown, or with a
\* parent page id that extractAndValidatePageId rejects, never issues a
\* Notion API request, and once handled its result is {success: false, error}.
C4_ValidationBeforeNetwork ==
  InvalidRequest =>
    /\ calls = <<>>
    /\ pc \in {"start", "done"}
    /\ pc = "done" => /\ DOMAIN result = {"success", "error"}
                      /\ ~result.success
                      /\ result.error # ""

\* C4 witness: a request whose only fault is its parent page id was answered.
C4_Witness ==
  /\ pc = "done"
  /\ data.apiToken # <<>> /\ data.title # <<>> /\ data.markdown # << <<>> >>
  /\ ~extractAndValidatePageId(data.parentPageId).ok
  /\ result = [success |-> FALSE, error |-> "Invalid page ID format. Expected 32-character hex string."]
  /\ calls = <<>>

\* C5: when an append-children call fails after the page was created, the
\* result carries the id and the url of the created page with the error.
C5_PartialUploadReported ==
  (/\ pc = "done"
   /\ page # NoPage
   /\ calls # <<>>
   /\ calls[Len(calls)].status = "failed") =>
     /\ "error" \in DOMAIN result
     /\ "pageId" \in DOMAIN result /\ result.pageId = page.id
     /\ "pageUrl" \in DOMAIN result /\ result.pageUrl = page.url

\* C6: in every run, from the first progress report of handleCreatePage to
\* its return, the percentages passed to sendProgressUpdate are monotonically
\* non-decreasing.
C6_ProgressMonotone ==
  \A k \in 1..(Len(progress) - 1) : progress[k].percent <= progress[k + 1].percent

\* the request passes validation and its Markdown tokenizes, without hanging,
\* to no block at all
TokenizesToNothing ==
  /\ data.apiToken # <<>>
  /\ data.title # <<>>
  /\ extractAndValidatePageId(data.parentPageId).ok
  /\ LET tokenized == markdownToNotionBlocks(data.markdown)
     IN ~tokenized.hung /\ tokenized.blocks = <<>>

\* the create-page call was issued carrying, besides the source callout when
\* there is one, the placeholder paragraph and nothing else
CreatedWithPlaceholder ==
  /\ calls # <<>>
  /\ calls[1].endpoint = "POST /pages"
  /\ Len(calls[1].children) = (IF data.sourceUrl # <<>> THEN 2 ELSE 1)
  /\ calls[1].children[Len(calls[1].children)].type = "paragraph"
  /\ Str(calls[1].children[Len(calls[1].children)].rich_text[1].content)
       = "(Content could not be converted)"
  /\ \A k \in 1..(Len(calls[1].children) - 1) : calls[1].children[k].type = "callout"
  /\ result.success \/ calls[Len(calls)].status # "ok"

\* C7 (as claimed): whenever tokenizing the Markdown of a request produces no
\* blocks, the export goes on with exactly one placeholder paragraph, and no
\* create-page call carries an empty children list.
C7_PlaceholderAlways ==
  /\ (pc # "start" /\ TokenizesToNothing) => CreatedWithPlaceholder
  /\ \A k \in 1..Len(calls) : calls[k].children # <<>>

\* C7 (amended): whenever the Markdown of a request is not empty and
\* tokenizing it produces no blocks, the export goes on with exactly one
\* placeholder paragraph, and no create-page call carries an empty children
\* list; empty Markdown is rejected as a missing field before tokenizing.
C7_PlaceholderForNonEmptyMarkdown ==
  /\ (pc # "start" /\ TokenizesToNothing /\ data.markdown # << <<>> >>) => CreatedWithPlaceholder
  /\ (pc # "start" /\ TokenizesToNothing /\ data.markdown = << <<>> >>) =>
       /\ calls = <<>>
       /\ result = [success |-> FALSE, error |-> "Markdown content is required"]
  /\ \A k \in 1..Len(calls) : calls[k].children # <<>>

\* C7 witness: a request whose Markdown is blank but not empty ended with a
\* page created from the placeholder alone.
C7_Witness ==
  /\ pc = "done"
  /\ result.success
  /\ TokenizesToNothing
  /\ data.markdown # << <<>> >>
  /\ data.sourceUrl = <<>>
  /\ Len(calls) = 1
  /\ calls[1].children = <<Placeholder>>

\* every rich-text run a block carries: its own, those of its caption, of its
\* table cells and of its children
RECURSIVE BlockRuns(_)
BlockRuns(b) ==
  (IF "rich_text" \in DOMAIN b THEN {b.rich_text[k] : k \in 1..Len(b.rich_text)} ELSE {})
  \cup (IF "caption" \in DOMAIN b THEN {b.caption[k] : k \in 1..Len(b.caption)} ELSE {})
  \cup (IF "cells" \in DOMAIN b
          THEN UNION {{b.cells[c][k] : k \in 1..Len(b.cells[c])} : c \in 1..Len(b.cells)}
          ELSE {})
  \cup (IF "children" \in DOMAIN b
          THEN UNION {BlockRuns(b.children[k]) : k \in 1..Len(b.children)} ELSE {})

\* C8: every rich-text run of every block sent to the API has a content of at
\* most 2000 characters.
C8_RunsWithinLimit ==
  \A c \in 1..Len(calls) : \A k \in 1..Len(calls[c].children) :
    \A run \in BlockRuns(calls[c].children[k]) : Len(run.content) <= 2000

\* ------------------------------------------------------------------------
\* Properties of the tokenizer's main loop (specification SpecTok)
\* ------------------------------------------------------------------------
\* C3: every iteration of the main loop consumes at least one line: the
\* cursor i after an iteration is greater than it was when the iteration began.
C3_CursorAdvances == tokPrev < tokI

\* ------------------------------------------------------------------------
\* Properties of parseList (specification SpecList)
\* ------------------------------------------------------------------------
\* no block of bs, taken to lie at the given depth, carries children at depth
\* 2 or deeper
RECURSIVE ChildrenOnlyAbove(_, _)
ChildrenOnlyAbove(bs, depth) ==
  \A k \in 1..Len(bs) :
    "children" \in DOMAIN bs[k] =>
      /\ depth < 2
      /\ ChildrenOnlyAbove(bs[k].children, depth + 1)

AcceptedUrl(u) ==
  /\ StartsWith(u, HttpPrefix) \/ StartsWith(u, HttpsPrefix)
  /\ validateAndCleanUrl(u) # <<>>

\* C11: the link of every text run of every block pushed, and the URL of
\* every image block pushed, is an absolute http or https URL that
\* validateAndCleanUrl accepts; a URL that fails validation is never emitted
\* as a link or an image URL.
C11_UrlsValidated ==
  \A k \in 1..Len(tokBlocks) :
    /\ \A run \in BlockRuns(tokBlocks[k]) : run.link # NoLink => AcceptedUrl(run.link)
    /\ tokBlocks[k].type = "image" => AcceptedUrl(tokBlocks[k].url)

\* a line made of n '#' characters (1 <= n <= 6), white space and a text
\* that is not empty
IsHeadingLine(line) ==
  LET n == SameEnd(line, 1, "#") - 1
  IN /\ n >= 1 /\ n <= 6
     /\ n < Len(line) /\ IsWs(line[n + 1])
     /\ SkipWs(line, n + 1) <= Len(line)

HeadingTypes == <<"heading_1", "heading_2", "heading_3">>

\* C20: an iteration of the main loop that begins at a line of n '#'
\* characters (1 <= n <= 6), white space and non-empty text consumes that
\* line and pushes a heading block of level min(n, 3) carrying the text.
C20_HeadingLevel ==
  (tokPrev >= 1 /\ IsHeadingLine(tokLines[tokPrev])) =>
    LET line == tokLines[tokPrev]
        n == SameEnd(line, 1, "#") - 1
    IN /\ tokI = tokPrev + 1
       /\ tokBlocks # <<>>
       /\ tokBlocks[Len(tokBlocks)].type = HeadingTypes[Min({n, 3})]
       /\ tokBlocks[Len(tokBlocks)].rich_text
            = parseInlineMarkdown(SubSeq(line, SkipWs(line, n + 1), Len(line)))

\* C20 witness: a line of six '#' has been turned into a level-3 heading
C20_Witness ==
  /\ tokPrev >= 1
  /\ IsHeadingLine(tokLines[tokPrev])
  /\ SameEnd(tokLines[tokPrev], 1, "#") - 1 = 6
  /\ tokBlocks[Len(tokBlocks)].type = "heading_3"

\* the number of backticks a line starts with once its indentation is stripped
FenceLength(line) == SameEnd(TrimStart(line), 1, Backtick) - 1

\* the first line after line open whose stripped form is exactly n
\* backticks, Len(lines) + 1 when there is none
ClosingLine(lines, open, n) ==
  LET closers == {j \in (open + 1)..Len(lines) : Trim(lines[j]) = Rep(Backtick, n)}
  IN IF closers = {} THEN Len(lines) + 1 ELSE Min(closers)

\* the lines from..to as code content, the opening line's indentation removed
CodeBetween(lines, indent, from, to) ==
  Join([k \in 1..(to - from + 1) |->
          IF indent # <<>> /\ StartsWith(lines[from + k - 1], indent)
            THEN SubSeq(lines[from + k - 1], Len(indent) + 1, Len(lines[from + k - 1]))
            ELSE lines[from + k - 1]], <<"\n">>)

\* C22: a code block opened by a line that starts, after its indentation,
\* with N >= 3 backticks is closed only by the first later line whose
\* stripped form is exactly N backticks: every line in between is code
\* content and the cursor moves to the line after the closing fence.
C22_FenceClosesAtSameLength ==
  (/\ tokPrev >= 1
   /\ Trim(tokLines[tokPrev]) # <<>>
   /\ FenceLength(tokLines[tokPrev]) >= 3) =>
    LET line == tokLines[tokPrev]
        close == ClosingLine(tokLines, tokPrev, FenceLength(line))
    IN /\ tokI = close + 1
       /\ tokBlocks # <<>>
       /\ tokBlocks[Len(tokBlocks)].type = "code"
       /\ tokBlocks[Len(tokBlocks)].rich_text =
            <<PlainRun(CodeBetween(tokLines, SubSeq(line, 1, Len(line) - Len(TrimStart(line))),
                                   tokPrev + 1, close - 1))>>

\* the line at cursor k matches none of the rules before the flowchart rule
\* and passes the test of that rule
ReachesFlowchartRule(lines, k) ==
  /\ Trim(lines[k]) # <<>>
  /\ ~StartsWith(TrimStart(lines[k]), Fence)
  /\ ~IsHeading(lines[k])
  /\ ~IsHorizontalRule(lines[k])
  /\ ~Includes(lines[k], "|")
  /\ ~StartsWith(lines[k], <<">", " ">>)
  /\ ~parseList(lines, k).ok
  /\ ImageSplit(lines[k]) = 0
  /\ isFlowchartLine(lines[k])

\* C29: a line that reaches the flowchart rule is emitted as one paragraph
\* whose text, the concatenation of the contents of its runs, is the line
\* character for character, no run carrying an annotation or a link.
C29_FlowLineVerbatim ==
  (tokPrev >= 1 /\ ReachesFlowchartRule(tokLines, tokPrev)) =>
    /\ tokI = tokPrev + 1
    /\ tokBlocks # <<>>
    /\ tokBlocks[Len(tokBlocks)].type = "paragraph"
    /\ RunContents(tokBlocks[Len(tokBlocks)].rich_text) = tokLines[tokPrev]
    /\ \A k \in 1..Len(tokBlocks[Len(tokBlocks)].rich_text) :
         /\ tokBlocks[Len(tokBlocks)].rich_text[k].annotations = {}
         /\ tokBlocks[Len(tokBlocks)].rich_text[k].link = NoLink

\* ------------------------------------------------------------------------
\* Properties of deep lists (specification SpecList)
\* ------------------------------------------------------------------------
\* the blocks of bs and of their children arrays in document order, each
\* with the depth of the array that holds it
RECURSIVE ListedAt(_, _)
ListedAt(bs, depth) ==
  IF bs = <<>> THEN <<>>
  ELSE <<[depth |-> depth, block |-> Head(bs)]>>
       \o (IF "children" \in DOMAIN Head(bs) THEN ListedAt(Head(bs).children, depth + 1) ELSE <<>>)
       \o ListedAt(Tail(bs), depth)

\* the number of columns a line is indented by
IndentOf(line) == SkipWs(line, 1) - 1

\* a bullet list "- i1", "  - i2", ... that starts at column 0 and whose
\* items are each at most one level (2 columns) deeper than the item before
ProperBulletList(lines) ==
  /\ Len(lines) >= 1
  /\ IndentOf(lines[1]) = 0
  /\ \A k \in 1..Len(lines) :
       SubSeq(lines[k], IndentOf(lines[k]) + 1, IndentOf(lines[k]) + 3) = <<"-", " ", "i">>
  /\ \A k \in 1..(Len(lines) - 1) : IndentOf(lines[k + 1]) <= IndentOf(lines[k]) + 2

\* C15: in a nested bullet list indented by 2 columns per level (the 5-level
\* list at columns 0, 2, 4, 6, 8 among them) the items come out in document
\* order; items of level 0 and 1 carry their deeper items as native children;
\* items of level 2 and deeper are flat siblings at depth 2; and exactly the
\* items of level 3 and deeper start with the marker [ind{level+1}], their
\* 1-indexed depth.
C15_DeepListShape ==
  (listOut.ok /\ ProperBulletList(listLines)) =>
    LET out == ListedAt(listOut.blocks, 0)
    IN /\ listOut.nextIndex = Len(listLines) + 1
       /\ Len(out) = Len(listLines)
       /\ \A k \in 1..Len(listLines) :
            LET level == IndentOf(listLines[k]) \div 2
            IN /\ out[k].block.type = "bulleted_list_item"
               /\ out[k].block.rich_text
                    = <<PlainRun((IF level >= 3
                                    THEN <<"[", "i", "n", "d">> \o NumberToString(level + 1) \o <<"]", " ">>
                                    ELSE <<>>)
                                 \o <<"i">> \o NumberToString(k))>>
               /\ out[k].depth = Min({level, 2})
               /\ ("children" \in DOMAIN out[k].block)
                    <=> /\ level < 2
                        /\ k < Len(listLines)
                        /\ IndentOf(listLines[k + 1]) > IndentOf(listLines[k])

\* C15 witness: the 5-level list has been parsed; its fifth item is the flat
\* sibling "[ind5] i5" under the level-1 item
C15_Witness ==
  /\ listLines = ListDoc(<<"-", " ">>, <<0, 2, 4, 6, 8>>)
  /\ listOut.ok
  /\ Len(listOut.blocks) = 1
  /\ Len(listOut.blocks[1].children) = 1
  /\ Len(listOut.blocks[1].children[1].children) = 3
  /\ listOut.blocks[1].children[1].children[3].rich_text
       = <<PlainRun(<<"[", "i", "n", "d", "5", "]", " ", "i", "5">>)>>

\* the list type parseList finds for the first line of a list
ListTypeOf(line) ==
  IF TaskItem(line).ok THEN "task"
  ELSE IF BulletStart(line) THEN "bullet"
  ELSE IF NumberStart(line) THEN "number"
  ELSE "none"

\* C26: while parseNestedList scans a list, a run of one or more blank lines
\* does not end the list when the next non-blank line is a list item of an
\* indent not below the list's base indent: whenever a collected item is
\* followed by blank lines and then by such an item, that item is collected
\* too (the scan ends after it), however many blank lines lie between.
C26_BlankRunsContinueList ==
  listOut.ok =>
    \A a \in 1..Len(listLines) : \A b \in (a + 2)..Len(listLines) :
      (/\ a < listOut.nextIndex
       /\ ItemMatch(listLines[a], ListTypeOf(listLines[1])).ok
       /\ \A k \in (a + 1)..(b - 1) : Trim(listLines[k]) = <<>>
       /\ ItemMatch(listLines[b], ListTypeOf(listLines[1])).ok
       /\ ItemMatch(listLines[b], ListTypeOf(listLines[1])).indent
            >= ItemMatch(listLines[1], ListTypeOf(listLines[1])).indent)
      => b < listOut.nextIndex

\* the indices of the lines parseNestedList collected as items
RECURSIVE CollectedFrom(_, _, _)
CollectedFrom(lines, k, last) ==
  IF k > last THEN <<>>
  ELSE (IF ItemMatch(lines[k], ListTypeOf(lines[1])).ok THEN <<k>> ELSE <<>>)
       \o CollectedFrom(lines, k + 1, last)

\* a text without the [indN] marker that flattenTreeToBlocks puts before it
StripIndMarker(text) ==
  IF StartsWith(text, <<"[", "i", "n", "d">>)
    THEN SubSeq(text, NextPos(text, "]", 1) + 2, Len(text))
    ELSE text

\* text is what is emitted for an item with this content: the content
\* itself, or what is left of it once leading numbering is removed
EmittedFor(text, content) ==
  IF IsDigit(content[1]) THEN EndsWith(content, text) ELSE text = content

\* C27: buildNestedList neither loses nor duplicates items: whatever the
\* indent levels of the collected items (levels skipped or below the first
\* item's included), the emitted forest holds exactly one block per item,
\* and its pre-order traversal (a block, then its children, then its next
\* sibling) meets the items in source order.
C27_ItemsOnceInOrder ==
  listOut.ok =>
    LET out == ListedAt(listOut.blocks, 0)
        collected == CollectedFrom(listLines, 1, listOut.nextIndex - 1)
    IN /\ Len(out) = Len(collected)
       /\ \A k \in 1..Len(collected) :
            EmittedFor(StripIndMarker(RunContents(out[k].block.rich_text)),
                       ItemMatch(listLines[collected[k]], ListTypeOf(listLines[1])).content)

\* C27 witness: a list whose second and fifth items lie left of the first
\* and whose third item skips levels has been built: two root blocks, the
\* second holding the third and the fifth item.
C27_Witness ==
  /\ listLines = ListDoc(<<"-", " ">>, <<4, 0, 6, 8, 2>>)
  /\ listOut.ok
  /\ Len(listOut.blocks) = 2
  /\ Len(listOut.blocks[2].children) = 2
  /\ Len(ListedAt(listOut.blocks, 0)) = 5

\* the content of a bulleted or numbered item line as the item pattern
\* captures it, before any cleanup
RawContent(line) ==
  IF ListTypeOf(line) = "bullet" THEN BulletItem(line).content ELSE NumberItem(line).content

\* every item is emitted with the content parseNestedList collected for it
EmittedAsCollected(out, collected) ==
  \A j \in 1..Len(collected) :
    StripIndMarker(RunContents(out[j].block.rich_text))
      = ItemMatch(listLines[collected[j]], ListTypeOf(listLines[1])).content

\* items with the same content are emitted with the same text, the marker aside
SameTextForSameContent(out, collected) ==
  \A j, k \in 1..Len(collected) :
    RawContent(listLines[collected[j]]) = RawContent(listLines[collected[k]])
      => StripIndMarker(RunContents(out[j].block.rich_text))
           = StripIndMarker(RunContents(out[k].block.rich_text))

\* C28: the numbering cleanup gives the same text wherever it is applied to
\* the content of a bulleted or numbered item: the cascade of
\* parseNestedList gives what cleanListContent gives, cleaning the cleaned
\* content again in buildNestedList changes nothing (the emitted text is the
\* content parseNestedList collected), and two items with the same content
\* are emitted with the same text (the [indN] marker aside) whatever their
\* depth.
C28_CleanupSameEverywhere ==
  (listOut.ok /\ ListTypeOf(listLines[1]) \in {"bullet", "number"}) =>
    /\ \A j \in 1..(listOut.nextIndex - 1) :
         ItemMatch(listLines[j], ListTypeOf(listLines[1])).ok =>
           ItemMatch(listLines[j], ListTypeOf(listLines[1])).content
             = cleanListContent(RawContent(listLines[j]))
    /\ EmittedAsCollected(ListedAt(listOut.blocks, 0),
                          CollectedFrom(listLines, 1, listOut.nextIndex - 1))
    /\ SameTextForSameContent(ListedAt(listOut.blocks, 0),
                              CollectedFrom(listLines, 1, listOut.nextIndex - 1))

\* ------------------------------------------------------------------------
\* Properties of single calls and of the stage-1 rules (specification SpecCalls)
\* ------------------------------------------------------------------------
\* C12: whatever string normalizeLanguage is given, it returns a member of
\* validNotionLanguages.
C12_LanguageInValidSet ==
  (call.fn = "normalizeLanguage" /\ callPc = "done") => callRet \in validNotionLanguages

\* C13: for any code content the confluenceCodeBlock rule opens with a run of
\* backticks that does not occur in the content (4 or more when the content
\* holds three), and markdownToNotionBlocks turns the emitted Markdown into
\* exactly one code block whose text is the content, followed by the blocks
\* of the Markdown after the closing fence.
C13_FenceRoundTrip ==
  (call.fn = "confluenceCodeBlock" /\ callPc = "done") =>
    LET content == call.arg.codeContent
        fenceRun == SubSeq(callMd[3], 1, SameEnd(callMd[3], 1, Backtick) - 1)
    IN /\ ~IncludesSeq(content, fenceRun)
       /\ IncludesSeq(content, Fence) => Len(fenceRun) >= 4
       /\ ~callBlocks.hung
       /\ Len(callBlocks.blocks) >= 1
       /\ callBlocks.blocks[1].type = "code"
       /\ callBlocks.blocks[1].rich_text = <<PlainRun(content)>>
       /\ Tail(callBlocks.blocks) = markdownToNotionBlocks(Split(call.arg.after, "\n")).blocks

\* the trimmed content of the first blockquote of the lines: its contiguous
\* lines starting with '> ', without that prefix, joined
QuotedContent(lines) ==
  LET q == Min({k \in 1..Len(lines) : StartsWith(lines[k], <<">", " ">>)})
  IN Trim(Join([k \in 1..(QuoteEnd(lines, q) - q) |-> SubSeq(lines[q + k - 1], 3, Len(lines[q + k - 1]))],
               <<"\n">>))

\* the type the emoji table assigns to each of its eight emoji
EmojiType(e) ==
  CASE e = <<"U+2139", "U+FE0F">> -> "info"
    [] e = <<"U+26A0", "U+FE0F">> -> "warning"
    [] e = <<"U+1F4DD">> -> "note"
    [] e = <<"U+1F4A1">> -> "tip"
    [] e = <<"U+2705">> -> "success"
    [] e = <<"U+274C">> -> "error"
    [] e = <<"U+1F514">> -> "notification"
    [] e = <<"U+1F4AC">> -> "comment"

\* C14: a blockquote whose trimmed content starts with one of the eight emoji
\* of the table is emitted as a callout of the type (shown by its colour) the
\* table assigns to that emoji; the panels the infoPanel rule emits are such
\* blockquotes.
C14_EmojiCallout ==
  (callPc = "done" /\ call.fn \in {"markdown", "infoPanel"}) =>
    \A e \in CalloutEmoji :
      StartsWith(QuotedContent(callMd), e) =>
        /\ callBlocks.blocks # <<>>
        /\ callBlocks.blocks[1].type = "callout"
        /\ callBlocks.blocks[1].color = calloutColors(EmojiType(e))

IsUuidForm(id) ==
  /\ Len(id) = 36
  /\ \A k \in 1..36 : IF k \in {9, 14, 19, 24} THEN id[k] = "-" ELSE IsHex(id[k])

IsUrlInput(input) == StartsWith(Trim(input), HttpPrefix) \/ StartsWith(Trim(input), HttpsPrefix)

\* C17: whenever extractAndValidatePageId or extractNotionPageId accepts its
\* input, the result is 32 hex digits of the input, in their order,
\* formatted 8-4-4-4-12, and the function maps that result to itself; and
\* "not-a-valid-id" is rejected.
C17_PageIdNormalized ==
  (call.fn \in {"extractAndValidatePageId", "extractNotionPageId"} /\ callPc = "done") =>
    /\ callRet.ok =>
         /\ IsUuidForm(callRet.id)
         /\ IncludesSeq(RemoveHyphens(call.arg), RemoveHyphens(callRet.id))
         /\ IF call.fn = "extractAndValidatePageId"
              THEN extractAndValidatePageId(callRet.id) = callRet
              ELSE extractNotionPageId(callRet.id) = callRet
    /\ call.arg = <<"n", "o", "t", "-", "a", "-", "v", "a", "l", "i", "d", "-", "i", "d">> => ~callRet.ok

\* C18: extractAndValidatePageId accepts a parent id that is no URL only if
\* it is 32 hex digits, bare or hyphenated into groups of 8-4-4-4-12 (white
\* space around it aside); it rejects every other such string.
C18_StrictIdFormat ==
  (call.fn = "extractAndValidatePageId" /\ callPc = "done" /\ ~IsUrlInput(call.arg)) =>
    (callRet.ok => (IsHex32(Trim(call.arg)) \/ IsUuidForm(Trim(call.arg))))

\* the characters the inline patterns look for
MarkupChars == {"*", "_", "~", "[", "]", "(", ")", "!", Backtick}

NoMarkup(text) == \A k \in 1..Len(text) : text[k] \notin MarkupChars

\* C19 (as the code has it): for plain text t without markup characters,
\* parseInlineMarkdown(t) returns runs without annotations and without link;
\* if t is blank (empty or white space only) it is one run with empty
\* content; if t is not blank and at most MAX_TEXT_LENGTH characters long it
\* is exactly one run with content = t; a longer t is cut into
\* ceil(length / MAX_TEXT_LENGTH) runs of at most MAX_TEXT_LENGTH characters
\* whose contents concatenate to t.
C19_PlainTextRuns ==
  (call.fn = "parseInlineMarkdown" /\ callPc = "done" /\ NoMarkup(call.arg)) =>
    /\ \A k \in 1..Len(callRet) : callRet[k].annotations = {} /\ callRet[k].link = NoLink
    /\ IF Trim(call.arg) = <<>> THEN callRet = <<PlainRun(<<>>)>>
       ELSE /\ Len(callRet) = (Len(call.arg) + MAX_TEXT_LENGTH - 1) \div MAX_TEXT_LENGTH
            /\ \A k \in 1..Len(callRet) : Len(callRet[k].content) <= MAX_TEXT_LENGTH
            /\ RunContents(callRet) = call.arg

\* C19 witness: a text that is not blank, has no markup characters and has
\* been formatted into the single run holding it.
C19_Witness ==
  /\ call.fn = "parseInlineMarkdown" /\ callPc = "done"
  /\ NoMarkup(call.arg) /\ Trim(call.arg) # <<>> /\ Len(call.arg) > 1
  /\ callRet = <<PlainRun(call.arg)>>

\* C19 (as stated): for every plain text t without markup characters,
\* parseInlineMarkdown(t) returns exactly one run with content = t and no
\* annotations.
C19_PlainTextOneRun ==
  (call.fn = "parseInlineMarkdown" /\ callPc = "done" /\ NoMarkup(call.arg)) =>
    /\ Len(callRet) = 1
    /\ callRet[1].content = call.arg
    /\ callRet[1].annotations = {}

\* the table blocks among the blocks tokenized from the rule's Markdown
TableBlocks == SelectSeq(callBlocks.blocks, LAMBDA b : b.type = "table")

\* C23: the table block built from the Markdown of the stage-1 table rule
\* has table_width equal to the rule's column count (the sum of the colspans
\* of the first row) and that many cells in every row.
C23_WidthIsColumnCount ==
  (call.fn = "confluenceTable" /\ callPc = "done") =>
    /\ Len(TableBlocks) = 1
    /\ TableBlocks[1].table_width = callRet.columnCount
    /\ \A k \in 1..Len(TableBlocks[1].children) :
         Len(TableBlocks[1].children[k].cells) = callRet.columnCount

\* C24: parseTable drops only the separator row: the table block built from
\* the Markdown of the stage-1 table rule has one table_row child per grid
\* row, whatever the cells of the rows hold.
C24_OneChildPerGridRow ==
  (call.fn = "confluenceTable" /\ callPc = "done") =>
    /\ Len(TableBlocks) = 1
    /\ Len(TableBlocks[1].children) = Len(callRet.grid)

\* a grid cell that is written to the Markdown as a single space
IsBlankCell(cell) == cell \in {NullCell, <<" ">>}

\* C25: parseTableRow splits a row only at unescaped pipes: for a line the
\* stage-1 table rule wrote (one that does not end in two blank cells, which
\* parseTableRow would trim) the number of cells parseTableRow returns is the
\* number of cells written, also when a cell holds an escaped pipe.
C25_SplitAtUnescapedPipes ==
  (call.fn = "confluenceTable" /\ callPc # "call") =>
    \A r \in 1..Len(callRet.grid) :
      LET rowData == callRet.grid[r]
          n == Len(rowData)
      IN (n = 1 \/ ~(IsBlankCell(rowData[n]) /\ IsBlankCell(rowData[n - 1]))) =>
           Len(parseTableRow(gridLine(rowData))) = n

\* ------------------------------------------------------------------------
\* Properties of two interleaved export runs (specification SpecRuns)
\* ------------------------------------------------------------------------
\* C21: two export runs that interleave share no mutable state, so the
\* progress reports observed for one run are not affected by the other:
\* every report a run's popup is shown, by its listener or by its poll of
\* the storage entry, was made by that run.
C21_RunsIsolated == \A p \in Runs : \A k \in 1..Len(shown[p]) : shown[p][k].run = p

\* ------------------------------------------------------------------------
\* Properties of the popup (specification SpecPopupFair)
\* ------------------------------------------------------------------------
\* C30: every invocation of handleSendToNotion leaves the processing view in
\* the end, showing the success view or the error view; whenever one of the
\* two is shown the PROGRESS_UPDATE listener has been removed and the polling
\* interval cleared; and sendToContentScript never makes more than retries
\* sends of its message.
C30_SendSettles ==
  /\ [](view \in {"success", "error"} => ~listenerOn /\ ~intervalOn)
  /\ [](sent <= retries)
  /\ (view = "processing") ~> (view \in {"success", "error"})

\* C30 witness: the success view is shown after sendToContentScript got its
\* response at the last of its retries sends, listener and interval gone.
C30_Witness ==
  /\ view = "success"
  /\ sent = retries
  /\ ~listenerOn
  /\ ~intervalOn

====
